---------------------------- MODULE Spec2Model ----------------------------
(***************************************************************************)
(* A model of sd-model-sync: the persistent hash cache (src/src/api.rs),   *)
(* the orphan pipeline sort_models (src/src/api.rs), the metadata resolver *)
(* (src/src/civitai.rs) and the link reconciliation (src/src/link.rs,      *)
(* src/src/configuration.rs, src/src/main.rs).                             *)
(*                                                                         *)
(* Paths are sequences of components below the filesystem root <<>>; every *)
(* path of the model is absolute and valid UTF-8.  The link code is the    *)
(* cfg(unix) build.                                                        *)
(***************************************************************************)
EXTENDS Integers, Sequences, FiniteSets, TLC

VARIABLES
    cache,      \* the cache file <root>/orphan_cache.json: [st, map]
    stores,     \* history: the stores that returned Ok on the current document
    call,       \* the last operation called, its arguments and its result
    fs,         \* the filesystem: existing path -> node
    phase,      \* sort_models: "idle", "running", "done"
    scanned,    \* sort_models: the paths get_orphan_models returned, in order
    todo,       \* sort_models: the paths for_each has not reached yet
    log,        \* sort_models: one record per path the closure has processed
    start,      \* sort_models: the filesystem and cache when the run began
    links       \* soft_link_to: one record per call made so far

vars == <<cache, stores, call, fs, phase, scanned, todo, log, start, links>>

----------------------------------------------------------------------------
(* Bounds *)

\* stores made on one cache document in the cache specification
MaxStores == 3
\* orphan files in the root directory of a sort_models run
MaxFiles == 2
\* categories whose paths start in another state than the default one
MaxVaried == 2
\* soft_link_to / create_symlink calls in the link specification
MaxLinkCalls == 2
\* entries of the root directory on which read_dir's iterator fails in a run
MaxUnreadable == 1
\* runs of sort_models over one root in the re-run specification
MaxRuns == 2
\* bytes of a stream hashed in the hash specification
MaxBytes == 3
\* bytes one read returns at most: the length of the buffer (64 KiB in the code)
BufferSize == 2
\* bytes of a digest (32 for SHA-256)
DigestBytes == 2

----------------------------------------------------------------------------
(* Paths: std::path::Path as the sequence of its components *)

Root == <<"models">>

NamePool == <<"a.safetensors", "b.ckpt", "c.pt", "d.pth">>

ModelNames == {NamePool[i] : i \in 1..MaxFiles}

\* Path::file_name: the last component, none for the empty path or "..".
HasFileName(p) == Len(p) > 0 /\ p[Len(p)] # ".."

FileName(p) == p[Len(p)]

\* Path::parent: the path without its last component; none for the root.
HasParent(p) == Len(p) > 0

Parent(p) == SubSeq(p, 1, Len(p) - 1)

\* A string read as a path: its components, "/" first when it is absolute.
\* The strings of the model without a separator are one component each.
ParsePath(s) ==
    CASE s = "../.." -> <<"..", "..">>
      [] s = "/outside" -> <<"/", "outside">>
      [] s = "sd/xl" -> <<"sd", "xl">>
      [] OTHER -> <<s>>

\* PathBuf::join: an absolute right-hand side replaces the left-hand side
\* (the paths of the model are sequences from the filesystem root on).
Join(p, q) == IF Len(q) > 0 /\ q[1] = "/" THEN Tail(q) ELSE p \o q

\* Path::to_string_lossy on a valid UTF-8 path: the path's own text.
ToStringLossy(p) == p

\* str::to_lowercase on the labels of the model.
ToLowercase(s) ==
    CASE s = "Pony" -> "pony"
      [] s = "SD 1.5" -> "sd 1.5"
      [] s = "Other" -> "other"
      [] OTHER -> s

----------------------------------------------------------------------------
(* Content digests *)

Bytes == {0, 1}

Contents == {<<b>> : b \in Bytes}

\* ring::digest::Context::new(&SHA256): the state of a running hash. The
\* hash of the model is a stand-in of DigestBytes bytes that absorbs its
\* input byte by byte and has no collision on the contents of the model.
NewContext == 0

RECURSIVE Update(_, _)
\* Context::update: the bytes of data absorbed in order.
Update(context, data) ==
    IF data = <<>> THEN context
    ELSE Update((context * 31 + Head(data) + 1) % (256 ^ DigestBytes), Tail(data))

\* Context::finish: the digest, DigestBytes bytes, most significant first.
Finish(context) ==
    [i \in 1..DigestBytes |-> (context \div (256 ^ (DigestBytes - i))) % 256]

HexDigits ==
    <<"0", "1", "2", "3", "4", "5", "6", "7", "8", "9", "A", "B", "C", "D",
      "E", "F">>

\* HEXUPPER.encode: two upper-case hexadecimal digits per byte.
HexUpper(digest) ==
    [i \in 1..(2 * Len(digest)) |->
        LET byte == digest[(i + 1) \div 2] IN
        HexDigits[(IF i % 2 = 1 THEN byte \div 16 ELSE byte % 16) + 1]]

\* The digest string of a byte sequence: SHA-256 of all of it, in HEXUPPER.
Sha256Hex(bytes) == HexUpper(Finish(Update(NewContext, bytes)))

Digests == {Sha256Hex(c) : c \in Contents}

\* The empty string: where no digest was returned.
NoDigest == <<>>

\* let mut buffer = [0; 1024 * 64]
NewBuffer == [i \in 1..BufferSize |-> 0]

\* reader.read(&mut buffer) returning Len(data): data at the start of the
\* buffer, the rest of the buffer as it was.
ReadInto(buffer, data) ==
    [i \in 1..BufferSize |-> IF i <= Len(data) THEN data[i] ELSE buffer[i]]

\* context.update(&buffer): the whole buffer, not its first count bytes
update_whole_buffer(context, buffer, count) == Update(context, buffer)

\* context.update(&buffer[..count])
update_read(context, buffer, count) == Update(context, SubSeq(buffer, 1, count))

RECURSIVE ReadLoop(_, _, _)
\* The loop of calculate_hash_sha256 on a reader that fills the buffer as
\* far as the stream goes, until read returns 0.
ReadLoop(context, buffer, rest) ==
    IF rest = <<>> THEN context
    ELSE LET count == IF Len(rest) < BufferSize THEN Len(rest) ELSE BufferSize
             filled == ReadInto(buffer, SubSeq(rest, 1, count))
         IN  ReadLoop(update_read(context, filled, count), filled,
                      SubSeq(rest, count + 1, Len(rest)))

\* EldenRing::calculate_hash_sha256 on a reader that does not fail.
calculate_hash_sha256(bytes) ==
    HexUpper(Finish(ReadLoop(NewContext, NewBuffer, bytes)))

----------------------------------------------------------------------------
(* The cache file and its JSON document *)

EmptyMap == <<>>

Absent == [st |-> "absent", map |-> EmptyMap]

\* A file that exists and holds no well-formed JSON map (an empty file too).
Invalid == [st |-> "invalid", map |-> EmptyMap]

\* serde_json::to_writer_pretty of a HashMap<String, String>
Document(data) == [st |-> "map", map |-> data]

\* serde_json::from_reader::<HashMap<String, String>>
FromReader(file) ==
    IF file.st = "map" THEN [ok |-> TRUE, map |-> file.map]
    ELSE [ok |-> FALSE, map |-> EmptyMap]

\* Result::unwrap_or_default
UnwrapOrDefault(r) == IF r.ok THEN r.map ELSE EmptyMap

LookupResult(err, hash) == [err |-> err, hash |-> hash]

\* get().unwrap_or_default(): a missing key gives Ok("")
lookup_missing_is_ok(model, file) ==
    IF file.st = "absent" THEN LookupResult("Io", NoDigest)
    ELSE LET data == UnwrapOrDefault(FromReader(file))
             key == ToStringLossy(model)
         IN  IF key \in DOMAIN data THEN LookupResult("none", data[key])
             ELSE LookupResult("none", NoDigest)

\* from_reader(reader)? : a document that does not parse is an error
lookup_strict_parse(model, file) ==
    IF file.st = "absent" THEN LookupResult("Io", NoDigest)
    ELSE IF ~FromReader(file).ok THEN LookupResult("SerdeJson", NoDigest)
    ELSE LET data == FromReader(file).map
             key == ToStringLossy(model)
         IN  IF key \in DOMAIN data THEN LookupResult("none", data[key])
             ELSE LookupResult("ModelNotFound", NoDigest)

\* lookup_cached_model_hash: the open is read-only and fails on a missing
\* file (io::Error -> APIError::Io); the file is never written.
lookup_cached_model_hash(model, file) ==
    IF file.st = "absent" THEN LookupResult("Io", NoDigest)
    ELSE LET data == UnwrapOrDefault(FromReader(file))
             key == ToStringLossy(model)
         IN  IF key \in DOMAIN data THEN LookupResult("none", data[key])
             ELSE LookupResult("ModelNotFound", NoDigest)

\* The places where cache_model_hash can fail: each `?` of its body.
StoreFaults == {"none", "open", "set_len", "seek", "write"}

StoreResult(err, file) == [err |-> err, file |-> file]

\* data.insert(key, hash): the entry is overwritten
cache_model_hash_overwrite(hash, model, file, fault) ==
    IF fault = "open" THEN StoreResult("Io", file)
    ELSE LET opened == IF file.st = "absent" THEN Invalid ELSE file
             data == UnwrapOrDefault(FromReader(opened))
             key == ToStringLossy(model)
             inserted == [k \in DOMAIN data \cup {key} |->
                             IF k = key THEN hash ELSE data[k]]
         IN  CASE fault = "set_len" -> StoreResult("Io", opened)
               [] fault = "seek" -> StoreResult("Io", Invalid)
               [] fault = "write" -> StoreResult("SerdeJson", Invalid)
               [] OTHER -> StoreResult("none", Document(inserted))

\* The document is not loaded: the map written holds the one entry
cache_model_hash_single_entry(hash, model, file, fault) ==
    IF fault = "open" THEN StoreResult("Io", file)
    ELSE LET opened == IF file.st = "absent" THEN Invalid ELSE file
             key == ToStringLossy(model)
             inserted == [k \in {key} |-> hash]
         IN  CASE fault = "set_len" -> StoreResult("Io", opened)
               [] fault = "seek" -> StoreResult("Io", Invalid)
               [] fault = "write" -> StoreResult("SerdeJson", Invalid)
               [] OTHER -> StoreResult("none", Document(inserted))

\* cache_model_hash: open (creating the file), load the document (the
\* default on a parse error), insert only into a vacant entry, truncate,
\* rewind, rewrite. A write failure is the error to_writer_pretty returns;
\* the flush of the BufWriter when it is dropped is taken to succeed.
cache_model_hash(hash, model, file, fault) ==
    IF fault = "open" THEN StoreResult("Io", file)
    ELSE LET opened == IF file.st = "absent" THEN Invalid ELSE file
             data == UnwrapOrDefault(FromReader(opened))
             key == ToStringLossy(model)
             inserted == IF key \in DOMAIN data THEN data
                         ELSE [k \in DOMAIN data \cup {key} |->
                                  IF k = key THEN hash ELSE data[k]]
         IN  CASE fault = "set_len" -> StoreResult("Io", opened)
               [] fault = "seek" -> StoreResult("Io", Invalid)
               [] fault = "write" -> StoreResult("SerdeJson", Invalid)
               [] OTHER -> StoreResult("none", Document(inserted))

----------------------------------------------------------------------------
(* The filesystem: a function from the paths that exist (as lstat sees     *)
(* them) to their nodes.  The root <<>> is a directory and is not stored.  *)

FileNode(bytes) == [kind |-> "file", data |-> bytes, to |-> <<>>]

DirNode == [kind |-> "dir", data |-> <<>>, to |-> <<>>]

\* A symbolic link and the path recorded in it.
LinkNode(target) == [kind |-> "link", data |-> <<>>, to |-> target]

\* Symbolic links followed while resolving one path (ELOOP beyond it).
MaxSymlinkHops == 4

NoPath == [ok |-> FALSE, path |-> <<>>]

IsPrefix(p, q) == Len(p) <= Len(q) /\ SubSeq(q, 1, Len(p)) = p

RECURSIVE Walk(_, _, _, _)
\* Path resolution: `done` is resolved and a directory, `rest` is still to
\* walk; a symbolic link met on the way is replaced by its recorded path,
\* and ".." leads to the directory above `done` (the root is its own).
Walk(f, done, rest, hops) ==
    IF rest = <<>> THEN [ok |-> TRUE, path |-> done]
    ELSE IF Head(rest) = ".."
    THEN Walk(f, IF done = <<>> THEN <<>> ELSE Parent(done), Tail(rest), hops)
    ELSE LET next == Append(done, Head(rest)) IN
         IF next \notin DOMAIN f THEN NoPath
         ELSE IF f[next].kind = "link"
              THEN IF hops = 0 THEN NoPath
                   ELSE Walk(f, <<>>, f[next].to \o Tail(rest), hops - 1)
         ELSE IF f[next].kind = "file" /\ Tail(rest) # <<>> THEN NoPath
         ELSE Walk(f, next, Tail(rest), hops)

\* The path with every symbolic link followed (stat).
Resolve(f, p) == Walk(f, <<>>, p, MaxSymlinkHops)

\* The place of the entry itself, its last component not followed (lstat).
Entry(f, p) ==
    IF p = <<>> THEN [ok |-> TRUE, path |-> <<>>]
    ELSE IF FileName(p) = ".." THEN Resolve(f, p)
    ELSE LET dir == Resolve(f, Parent(p)) IN
         IF dir.ok /\ (dir.path = <<>> \/ f[dir.path].kind = "dir")
         THEN [ok |-> TRUE, path |-> Append(dir.path, FileName(p))]
         ELSE NoPath

\* Path::exists: follows symbolic links, so a dangling link does not exist.
Exists(f, p) == Resolve(f, p).ok

\* Path::is_dir: follows symbolic links.
IsDir(f, p) ==
    LET r == Resolve(f, p) IN
    r.ok /\ (r.path = <<>> \/ f[r.path].kind = "dir")

\* Whether an entry is there at all, a dangling link included.
LExists(f, p) == LET e == Entry(f, p) IN e.ok /\ (e.path = <<>> \/ e.path \in DOMAIN f)

IsSymlink(f, p) ==
    LET e == Entry(f, p) IN
    e.ok /\ e.path \in DOMAIN f /\ f[e.path].kind = "link"

\* std::fs::read_link: the recorded path of a symbolic link, an error otherwise.
ReadLink(f, p) ==
    IF IsSymlink(f, p) THEN [ok |-> TRUE, path |-> f[Entry(f, p).path].to]
    ELSE NoPath

FsResult(ok, f) == [ok |-> ok, fs |-> f]

Without(f, gone) == [q \in DOMAIN f \ gone |-> f[q]]

With(f, p, node) == [q \in DOMAIN f \cup {p} |-> IF q = p THEN node ELSE f[q]]

\* std::fs::remove_file: unlinks a file or a symbolic link, not a directory.
RemoveFile(f, p) ==
    LET e == Entry(f, p) IN
    IF e.ok /\ e.path \in DOMAIN f /\ f[e.path].kind # "dir"
    THEN FsResult(TRUE, Without(f, {e.path}))
    ELSE FsResult(FALSE, f)

\* std::fs::remove_dir_all: a symbolic link is unlinked and not followed; a
\* directory goes with everything below it.
RemoveDirAll(f, p) ==
    LET e == Entry(f, p) IN
    IF ~(e.ok /\ e.path \in DOMAIN f) THEN FsResult(FALSE, f)
    ELSE IF f[e.path].kind = "link" THEN FsResult(TRUE, Without(f, {e.path}))
    ELSE IF f[e.path].kind = "file" THEN FsResult(FALSE, f)
    ELSE FsResult(TRUE, Without(f, {q \in DOMAIN f : IsPrefix(e.path, q)}))

RECURSIVE CreateDirAll(_, _)
\* std::fs::create_dir_all: every missing directory of the path, outermost
\* first; an error when a component is there and is no directory. A path
\* that is a directory once its parent was made (one ending in "..") is Ok.
CreateDirAll(f, p) ==
    IF IsDir(f, p) THEN FsResult(TRUE, f)
    ELSE IF p = <<>> THEN FsResult(FALSE, f)
    ELSE LET up == CreateDirAll(f, Parent(p)) IN
         IF ~up.ok THEN up
         ELSE IF IsDir(up.fs, p) THEN up
         ELSE LET e == Entry(up.fs, p) IN
              IF ~e.ok \/ e.path \in DOMAIN up.fs THEN FsResult(FALSE, up.fs)
              ELSE FsResult(TRUE, With(up.fs, e.path, DirNode))

\* std::os::unix::fs::symlink: EEXIST when an entry (a dangling link too) is
\* at the link path, ENOENT when its directory is missing.
Symlink(f, source, p) ==
    LET e == Entry(f, p) IN
    IF ~e.ok \/ e.path = <<>> \/ e.path \in DOMAIN f THEN FsResult(FALSE, f)
    ELSE FsResult(TRUE, With(f, e.path, LinkNode(source)))

\* std::fs::rename of a file or link: replaces a file or link at the new
\* path, fails on a directory there or on a missing directory.
Rename(f, from, dest) ==
    LET a == Entry(f, from)
        b == Entry(f, dest)
    IN  IF ~(a.ok /\ a.path \in DOMAIN f /\ f[a.path].kind # "dir")
        THEN FsResult(FALSE, f)
        ELSE IF ~b.ok \/ b.path = <<>> THEN FsResult(FALSE, f)
        ELSE IF b.path \in DOMAIN f /\ f[b.path].kind = "dir" THEN FsResult(FALSE, f)
        ELSE IF a.path = b.path THEN FsResult(TRUE, f)
        ELSE FsResult(TRUE, With(Without(f, {a.path}), b.path, f[a.path]))

----------------------------------------------------------------------------
(* The cache specification: stores and lookups on one cache file *)

OrphanPaths == {Join(Root, ParsePath(n)) : n \in ModelNames}

NoCall ==
    [op |-> "none", path |-> <<>>, hash |-> NoDigest, fault |-> "none",
     err |-> "none", out |-> NoDigest, pre |-> Absent]

IdleFs == <<>>

IdleStart ==
    [fs |-> IdleFs, cache |-> Absent, unreadable |-> {}, run |-> 0,
     earlier |-> <<>>]

InitCache ==
    /\ cache \in {Absent, Invalid}
    /\ stores = <<>>
    /\ call = NoCall
    /\ fs = IdleFs
    /\ phase = "idle"
    /\ scanned = <<>>
    /\ todo = <<>>
    /\ log = <<>>
    /\ start = IdleStart
    /\ links = <<>>

\* One call of cache_model_hash(hash, model, cache).
Store(hash, model, fault) ==
    /\ Len(stores) < MaxStores
    /\ LET r == cache_model_hash(hash, model, cache, fault) IN
       /\ cache' = r.file
       /\ stores' = IF r.err = "none"
                    THEN Append(stores, [path |-> model, hash |-> hash])
                    ELSE IF r.file = cache THEN stores ELSE <<>>
       /\ call' = [op |-> "store", path |-> model, hash |-> hash,
                   fault |-> fault, err |-> r.err, out |-> NoDigest,
                   pre |-> cache]
    /\ UNCHANGED <<fs, phase, scanned, todo, log, start, links>>

\* One call of lookup_cached_model_hash(model, cache).
Lookup(model) ==
    /\ LET r == lookup_cached_model_hash(model, cache) IN
       call' = [op |-> "lookup", path |-> model, hash |-> NoDigest,
                fault |-> "none", err |-> r.err, out |-> r.hash,
                pre |-> cache]
    /\ UNCHANGED <<cache, stores, fs, phase, scanned, todo, log, start, links>>

NextCache ==
    \/ \E hash \in Digests, model \in OrphanPaths, fault \in StoreFaults :
          Store(hash, model, fault)
    \/ \E model \in OrphanPaths : Lookup(model)

SpecCache == InitCache /\ [][NextCache]_vars

----------------------------------------------------------------------------
(* Claims on the hash cache *)

HasStore(p) == \E i \in 1..Len(stores) : stores[i].path = p

FirstStored(p) ==
    stores[CHOOSE i \in 1..Len(stores) :
              /\ stores[i].path = p
              /\ \A j \in 1..(i - 1) : stores[j].path # p].hash

\* C1: first-write-wins. After any sequence of stores on a well-formed
\* cache file, the value the cache holds for a path is the digest of the
\* first store made for that path; a later store never overwrites it.
FirstWriteWins ==
    \A p \in OrphanPaths :
        HasStore(p) =>
            /\ cache.st = "map"
            /\ ToStringLossy(p) \in DOMAIN cache.map
            /\ cache.map[ToStringLossy(p)] = FirstStored(p)

\* Two stores for one path with different digests were made.
FirstWriteWinsWitness ==
    \E i, j \in 1..Len(stores) :
        /\ i < j
        /\ stores[i].path = stores[j].path
        /\ stores[i].hash # stores[j].hash
        /\ stores[i].hash = FirstStored(stores[i].path)
        /\ call.op = "store" /\ call.err = "none"

\* C2: cache round-trip. On an existing cache file, a lookup of a stored
\* path returns the digest stored for it, and a lookup of a path never
\* stored returns ModelNotFound, whatever other paths were stored.
CacheRoundTrip ==
    (call.op = "lookup" /\ call.pre.st # "absent") =>
        IF HasStore(call.path)
        THEN call.err = "none" /\ call.out = FirstStored(call.path)
        ELSE call.err = "ModelNotFound"

\* A stored path is looked up after a store of another path.
CacheRoundTripWitness ==
    /\ call.op = "lookup"
    /\ call.err = "none"
    /\ Len(stores) >= 2
    /\ stores[1].path = call.path
    /\ stores[2].path # call.path
    /\ call.out = stores[1].hash

\* C3: when the cache file does not exist, a lookup returns ModelNotFound
\* (never an I/O error) and does not create the file.
LookupOfMissingFileIsNotFound ==
    (call.op = "lookup" /\ call.pre.st = "absent") =>
        /\ call.err = "ModelNotFound"
        /\ cache.st = "absent"

\* C3, the part that holds: the lookup does not create the file.
LookupOfMissingFileCreatesNothing ==
    (call.op = "lookup" /\ call.pre.st = "absent") => cache.st = "absent"

\* C4: corrupt-cache tolerance. On a cache file that holds no well-formed
\* JSON map, a lookup gives what it gives on an empty map (ModelNotFound),
\* and a store returns ok and leaves a cache with the one entry stored.
CorruptCacheAsEmpty ==
    /\ (call.op = "lookup" /\ call.pre.st = "invalid") =>
           /\ call.err = "ModelNotFound"
           /\ call.err = lookup_cached_model_hash(call.path, Document(EmptyMap)).err
    /\ (call.op = "store" /\ call.pre.st = "invalid" /\ call.fault = "none") =>
           /\ call.err = "none"
           /\ cache.st = "map"
           /\ DOMAIN cache.map = {ToStringLossy(call.path)}
           /\ cache.map[ToStringLossy(call.path)] = call.hash
           /\ cache = cache_model_hash(call.hash, call.path,
                                       Document(EmptyMap), "none").file

\* A store was made on a corrupt cache file.
CorruptCacheAsEmptyWitness ==
    /\ call.op = "store"
    /\ call.pre.st = "invalid"
    /\ call.fault = "none"
    /\ call.err = "none"

----------------------------------------------------------------------------
(* Link reconciliation: link.rs and the two FolderStructure types *)

LinkResult(err, f) == [err |-> err, fs |-> f]

\* should_skip_existing_link (cfg(unix)): a target that does not exist, as
\* Path::exists sees it, is never skipped; else the recorded path of the
\* link is compared with the source.
should_skip_existing_link(source, target, f) ==
    IF ~Exists(f, target) THEN FALSE
    ELSE LET link_target == ReadLink(f, target) IN
         IF link_target.ok THEN link_target.path = source ELSE FALSE

\* remove_existing_path
remove_existing_path(path, f) ==
    IF IsDir(f, path) THEN RemoveDirAll(f, path) ELSE RemoveFile(f, path)

\* ensure_parent_directory
ensure_parent_directory(path, f) ==
    IF HasParent(path) /\ ~Exists(f, Parent(path))
    THEN CreateDirAll(f, Parent(path))
    ELSE FsResult(TRUE, f)

\* create_platform_specific_symlink (cfg(unix))
create_platform_specific_symlink(source, target, f) == Symlink(f, source, target)

\* create_symlink; every io::Error becomes LinkError::Io.
create_symlink(source, target, f) ==
    IF should_skip_existing_link(source, target, f) THEN LinkResult("none", f)
    ELSE LET removed == IF Exists(f, target)
                        THEN remove_existing_path(target, f)
                        ELSE FsResult(TRUE, f)
         IN  IF ~removed.ok THEN LinkResult("Io", removed.fs)
             ELSE LET parent == ensure_parent_directory(target, removed.fs) IN
                  IF ~parent.ok THEN LinkResult("Io", parent.fs)
                  ELSE LET made == create_platform_specific_symlink(
                                       source, target, parent.fs)
                       IN  LinkResult(IF made.ok THEN "none" ELSE "Io", made.fs)

\* The fields of configuration.rs's FolderStructure, in soft_link_to's order.
ConfigurationFields ==
    <<"checkpoints", "loras", "controlnet", "upscale_models", "vae", "embeddings">>

\* The fields of main.rs's FolderStructure, in soft_link_to's order.
MainFields == <<"checkpoints", "loras", "controlnet", "upscale_models", "vae">>

Categories == {ConfigurationFields[i] : i \in 1..Len(ConfigurationFields)}

\* get_default_structure_general below the canonical root
Canonical == [c \in Categories |-> Join(Root, ParsePath(c))]

SatelliteRoot == <<"comfyui">>

\* get_default_structure_comfyui below the ComfyUI root
Satellite == [c \in Categories |-> Join(SatelliteRoot, ParsePath(c))]

\* A directory that exists, and a path at which nothing ever exists.
Elsewhere == <<"old">>

Nowhere == <<"gone">>

SoftLinkResult(err, f, failed) == [err |-> err, fs |-> f, failed |-> failed]

RECURSIVE SoftLinkLoop(_, _, _, _, _)
\* for (from, to_path) in paths { link::create_symlink(from, to_path)?; }
SoftLinkLoop(fields, from, to, i, f) ==
    IF i > Len(fields) THEN SoftLinkResult("none", f, 0)
    ELSE LET r == create_symlink(from[fields[i]], to[fields[i]], f) IN
         IF r.err # "none" THEN SoftLinkResult("Io", r.fs, i)
         ELSE SoftLinkLoop(fields, from, to, i + 1, r.fs)

\* FolderStructure::soft_link_to of configuration.rs (six pairs)
soft_link_to(from, to, f) == SoftLinkLoop(ConfigurationFields, from, to, 1, f)

\* FolderStructure::soft_link_to of main.rs (five pairs)
main_soft_link_to(from, to, f) == SoftLinkLoop(MainFields, from, to, 1, f)

----------------------------------------------------------------------------
(* The link specification: soft_link_to called again and again on one tree *)

TargetStates == {"absent", "file", "dir", "link_canonical", "link_elsewhere",
                 "link_nowhere"}

CategoryStates == [canonical : {"dir", "missing"}, target : TargetStates]

DefaultState == [canonical |-> "dir", target |-> "absent"]

NoEntries == [q \in {} |-> DirNode]

\* The entries of one category in the given state.
CategoryEntries(c, st) ==
    (CASE st.canonical = "dir" -> Canonical[c] :> DirNode
       [] st.canonical = "file" -> Canonical[c] :> FileNode(<<1>>)
       [] st.canonical = "link_dir" -> Canonical[c] :> LinkNode(Elsewhere)
       [] OTHER -> NoEntries)
    @@
    (CASE st.target = "file" -> Satellite[c] :> FileNode(<<0>>)
       [] st.target = "dir" ->
             (Satellite[c] :> DirNode)
             @@ (Append(Satellite[c], "x.bin") :> FileNode(<<0>>))
       [] st.target = "link_canonical" -> Satellite[c] :> LinkNode(Canonical[c])
       [] st.target = "link_elsewhere" -> Satellite[c] :> LinkNode(Elsewhere)
       [] st.target = "link_nowhere" -> Satellite[c] :> LinkNode(Nowhere)
       [] OTHER -> NoEntries)

RECURSIVE TreeOf(_, _)
TreeOf(states, i) ==
    IF i > Len(ConfigurationFields) THEN NoEntries
    ELSE CategoryEntries(ConfigurationFields[i], states[ConfigurationFields[i]])
         @@ TreeOf(states, i + 1)

InitLink ==
    /\ \E varied \in {v \in SUBSET Categories : Cardinality(v) <= MaxVaried} :
       \E choice \in [varied -> CategoryStates \ {DefaultState}] :
       \E satellite_root \in BOOLEAN :
          LET states == [c \in Categories |->
                            IF c \in varied THEN choice[c] ELSE DefaultState]
              used == \E c \in Categories : states[c].target # "absent"
          IN  /\ used => satellite_root
              /\ fs = TreeOf(states, 1)
                      @@ (Root :> DirNode) @@ (Elsewhere :> DirNode)
                      @@ (IF satellite_root THEN SatelliteRoot :> DirNode
                          ELSE NoEntries)
    /\ links = <<>>
    /\ cache = Absent
    /\ stores = <<>>
    /\ call = NoCall
    /\ phase = "idle"
    /\ scanned = <<>>
    /\ todo = <<>>
    /\ log = <<>>
    /\ start = IdleStart

LinkCall(impl, r) ==
    /\ fs' = r.fs
    /\ links' = Append(links, [impl |-> impl, err |-> r.err, failed |-> r.failed,
                               pre |-> fs, post |-> r.fs])
    /\ UNCHANGED <<cache, stores, call, phase, scanned, todo, log, start>>

\* models_structure.soft_link_to(&comfyui_structure), configuration.rs
SoftLinkTo ==
    /\ Len(links) < MaxLinkCalls
    /\ LinkCall("configuration", soft_link_to(Canonical, Satellite, fs))

\* models_structure.soft_link_to(&comfyui_config), main.rs
MainSoftLinkTo ==
    /\ Len(links) < MaxLinkCalls
    /\ LinkCall("main", main_soft_link_to(Canonical, Satellite, fs))

NextLink == SoftLinkTo \/ MainSoftLinkTo

SpecLink == InitLink /\ [][NextLink]_vars

----------------------------------------------------------------------------
(* Claims on the link reconciliation *)

\* The target of category c is a symbolic link recording c's canonical path.
LinkedTo(f, c) ==
    /\ IsSymlink(f, Satellite[c])
    /\ ReadLink(f, Satellite[c]).path = Canonical[c]

\* The target of category c is a symbolic link recording another path.
StaleLink(f, c) ==
    /\ IsSymlink(f, Satellite[c])
    /\ ReadLink(f, Satellite[c]).path # Canonical[c]

FieldsOf(impl) == IF impl = "main" THEN MainFields ELSE ConfigurationFields

\* The categories whose create_symlink ran in the call recorded as e.
Reached(e) ==
    {FieldsOf(e.impl)[i] : i \in {j \in 1..Len(FieldsOf(e.impl)) :
                                     e.failed = 0 \/ j <= e.failed}}

\* C5: link idempotence. A second soft_link_to with unchanged taxonomies,
\* after a first one that returned success, returns no error and leaves the
\* filesystem as the first call left it, also when a canonical category
\* directory does not exist and the link made by the first call dangles.
LinkIdempotence ==
    \A i \in 1..(Len(links) - 1) :
        (links[i].impl = links[i + 1].impl /\ links[i].err = "none") =>
            /\ links[i + 1].err = "none"
            /\ links[i + 1].post = links[i].post

\* C5, the part that holds: the second call changes nothing on the disk.
LinkSecondCallChangesNothing ==
    \A i \in 1..(Len(links) - 1) :
        (links[i].impl = links[i + 1].impl /\ links[i].err = "none") =>
            links[i + 1].post = links[i].post

\* C6: link replacement. Whenever create_symlink runs on a target that is
\* a symbolic link recording another path than the canonical one, whether
\* that other path exists or not, the target is afterwards a symbolic link
\* recording the canonical path.
LinkReplacement ==
    \A i \in 1..Len(links) :
        \A c \in Reached(links[i]) :
            StaleLink(links[i].pre, c) => LinkedTo(links[i].post, c)

\* C6, the case that holds: the stale link records a path that exists.
LinkReplacementOfLiveLink ==
    \A i \in 1..Len(links) :
        \A c \in Reached(links[i]) :
            (StaleLink(links[i].pre, c) /\ Exists(links[i].pre, Satellite[c]))
                => LinkedTo(links[i].post, c)

\* C7: reconciliation postcondition. When soft_link_to returns success,
\* each of the six categories has its link: the target path of category c
\* is a symbolic link recording the canonical path of the same category.
ReconciliationPostcondition ==
    \A i \in 1..Len(links) :
        links[i].err = "none" =>
            \A c \in Categories : LinkedTo(links[i].post, c)

\* C7, for configuration.rs's soft_link_to alone.
ReconciliationPostconditionOfConfiguration ==
    \A i \in 1..Len(links) :
        (links[i].err = "none" /\ links[i].impl = "configuration") =>
            \A c \in Categories : LinkedTo(links[i].post, c)

----------------------------------------------------------------------------
(* The metadata resolver: civitai.rs *)

ModelTypes == {"Checkpoint", "Embedding", "Lora", "Controlnet", "Upscaler", "Vae"}

\* The table of ModelType::webui_directory in its place
general_directory_webui(model_type) ==
    CASE model_type = "Checkpoint" -> "Stable-diffusion"
      [] model_type = "Embedding" -> "embeddings"
      [] model_type = "Lora" -> "Lora"
      [] model_type = "Controlnet" -> "ControlNet"
      [] model_type = "Upscaler" -> "ESRGAN"
      [] model_type = "Vae" -> "VAE"

\* ModelType::general_directory
general_directory(model_type) ==
    CASE model_type = "Checkpoint" -> "checkpoints"
      [] model_type = "Embedding" -> "embeddings"
      [] model_type = "Lora" -> "loras"
      [] model_type = "Controlnet" -> "controlnet"
      [] model_type = "Upscaler" -> "upscale_models"
      [] model_type = "Vae" -> "vae"

\* Option<String>
None == [some |-> FALSE, v |-> ""]

Some(v) == [some |-> TRUE, v |-> v]

UnwrapOr(opt, default) == IF opt.some THEN opt.v ELSE default

\* The fields of ModelInfo the pipeline reads: model.type and baseModel.
ModelInfo(model_type, base_model) ==
    [model_type |-> model_type, base_model |-> base_model]

NoInfo == ModelInfo("none", None)

\* The keys of ModelInfo that are neither Option nor defaulted: serde fails
\* on a body that lacks one of them. The three keys of ModelData stand
\* below "model"; files and images are arrays of well-formed objects.
RequiredFields ==
    {"id", "modelId", "trainedWords", "stats", "model.type", "model.nsfw",
     "model.poi", "files", "images"}

\* The keys of ModelInfo that are Option: absent or null reads as None.
OptionalFields ==
    {"name", "createdAt", "updatedAt", "status", "publishedAt",
     "trainingStatus", "trainingDetails", "baseModel", "baseModelType",
     "earlyAccessEndsAt", "earlyAccessConfig", "description", "uploadType",
     "usageControl", "air", "downloadUrl"}

\* The keys of the body that belong to the object below "model". ModelData
\* does not deny unknown fields.
ModelDataFields(fields) ==
    fields \cap {"model.type", "model.nsfw", "model.poi", "model.name",
                 "model.extra"}

\* A response body: whether it is a JSON object at all, the keys it has,
\* and the values of model.type and baseModel.
Body(info) ==
    [json |-> TRUE, fields |-> RequiredFields \cup {"name", "baseModel"},
     info |-> info]

BadBody == [json |-> FALSE, fields |-> {}, info |-> NoInfo]

\* resp.json::<ModelInfo>(): serde's derived Deserialize with
\* #[serde(deny_unknown_fields)] on ModelInfo. It fails on a body that is no
\* JSON object, lacks a required key, names no variant of ModelType, or has
\* a top-level key ModelInfo does not declare.
from_json(body) ==
    IF /\ body.json
       /\ RequiredFields \subseteq body.fields
       /\ body.info.model_type \in ModelTypes
       /\ (body.fields \ ModelDataFields(body.fields))
              \subseteq (RequiredFields \cup OptionalFields)
    THEN [ok |-> TRUE, info |-> body.info]
    ELSE [ok |-> FALSE, info |-> NoInfo]

\* What reqwest::blocking::get gives: no response at all (DNS, connect,
\* timeout), or a status and a body.
Transport == [sent |-> FALSE, status |-> 0, body |-> BadBody]

Http(status, body) == [sent |-> TRUE, status |-> status, body |-> body]

\* StatusCode::is_success and StatusCode::is_server_error
is_success(status) == status >= 200 /\ status < 300

is_server_error(status) == status >= 500 /\ status < 600

QueryResult(err, msg, info) == [err |-> err, msg |-> msg, info |-> info]

\* query_model_info: one request, no retry. The &str and String errors
\* become CivitAiError::Unspecified, a reqwest::Error CivitAiError::Reqwest.
query_model_info(hash, resp) ==
    IF ~resp.sent
    THEN QueryResult("Unspecified", "Failed to query Civitai", NoInfo)
    ELSE IF is_success(resp.status)
         THEN LET data == from_json(resp.body) IN
              IF data.ok
              THEN QueryResult("none", "", data.info)
              ELSE QueryResult("Reqwest", "error decoding response body", NoInfo)
    ELSE IF is_server_error(resp.status)
         THEN QueryResult("Unspecified", "Civitai Error", NoInfo)
    ELSE QueryResult("Unspecified", "Model not found", NoInfo)

----------------------------------------------------------------------------
(* The orphan pipeline: api.rs *)

\* What the environment answers to the calls one file's processing makes:
\* whether reading the file fails, where the cache store fails, the
\* resolver's response, and which filesystem call of the move fails.
Env(hash_fault, store_fault, resp, move_fault) ==
    [hash_fault |-> hash_fault, store_fault |-> store_fault, resp |-> resp,
     move_fault |-> move_fault]

\* EldenRing::from_file: File::open and the reads; an io::Error becomes
\* EldenError::Io.
from_file(filepath, f, fault) ==
    LET r == Resolve(f, filepath) IN
    IF fault \/ ~r.ok \/ r.path = <<>> \/ f[r.path].kind # "file"
    THEN [err |-> "Io", hash |-> NoDigest]
    ELSE [err |-> "none", hash |-> calculate_hash_sha256(f[r.path].data)]

InfoResult(err, info, file, hit, hashed, stored, requested, digest, variant) ==
    [err |-> err, info |-> info, cache |-> file, hit |-> hit,
     hashed |-> hashed, stored |-> stored, requested |-> requested,
     digest |-> digest, variant |-> variant]

\* The store follows the query: query_model_info(&hash)? comes first
get_model_info_query_first(model, file, f, env) ==
    LET cached == lookup_cached_model_hash(model, file) IN
    IF cached.err = "none"
    THEN LET q == query_model_info(cached.hash, env.resp) IN
         InfoResult(IF q.err = "none" THEN "none" ELSE "CivitAiError", q.info,
                    file, TRUE, FALSE, FALSE, TRUE, cached.hash, q.err)
    ELSE LET h == from_file(model, f, env.hash_fault) IN
         IF h.err # "none"
         THEN InfoResult("EldenError", NoInfo, file, FALSE, TRUE, FALSE, FALSE,
                         NoDigest, "none")
         ELSE LET q == query_model_info(h.hash, env.resp) IN
              IF q.err # "none"
              THEN InfoResult("CivitAiError", NoInfo, file, FALSE, TRUE, FALSE,
                              TRUE, h.hash, q.err)
              ELSE LET st == cache_model_hash(h.hash, model, file, env.store_fault) IN
                   InfoResult(st.err, IF st.err = "none" THEN q.info ELSE NoInfo,
                              st.file, FALSE, TRUE, TRUE, TRUE, h.hash, q.err)

\* The cache is not consulted: the file is hashed on every call
get_model_info_always_hash(model, file, f, env) ==
    LET h == from_file(model, f, env.hash_fault) IN
    IF h.err # "none"
    THEN InfoResult("EldenError", NoInfo, file, FALSE, TRUE, FALSE, FALSE,
                    NoDigest, "none")
    ELSE LET st == cache_model_hash(h.hash, model, file, env.store_fault) IN
         IF st.err # "none"
         THEN InfoResult(st.err, NoInfo, st.file, FALSE, TRUE, TRUE, FALSE,
                         h.hash, "none")
         ELSE LET q == query_model_info(h.hash, env.resp) IN
              InfoResult(IF q.err = "none" THEN "none" ELSE "CivitAiError",
                         q.info, st.file, FALSE, TRUE, TRUE, TRUE, h.hash,
                         q.err)

\* The result of the store is dropped: let _ = cache_model_hash(..)
get_model_info_ignoring_store(model, file, f, env) ==
    LET cached == lookup_cached_model_hash(model, file) IN
    IF cached.err = "none"
    THEN LET q == query_model_info(cached.hash, env.resp) IN
         InfoResult(IF q.err = "none" THEN "none" ELSE "CivitAiError", q.info,
                    file, TRUE, FALSE, FALSE, TRUE, cached.hash, q.err)
    ELSE LET h == from_file(model, f, env.hash_fault) IN
         IF h.err # "none"
         THEN InfoResult("EldenError", NoInfo, file, FALSE, TRUE, FALSE, FALSE,
                         NoDigest, "none")
         ELSE LET st == cache_model_hash(h.hash, model, file, env.store_fault)
                  q == query_model_info(h.hash, env.resp)
              IN  InfoResult(IF q.err = "none" THEN "none" ELSE "CivitAiError",
                             q.info, st.file, FALSE, TRUE, TRUE, TRUE, h.hash,
                             q.err)

\* get_model_info: the cached digest on a hit (any Err of the lookup is a
\* miss); on a miss the file is hashed and the digest stored; then the query.
get_model_info(model, file, f, env) ==
    LET cached == lookup_cached_model_hash(model, file) IN
    IF cached.err = "none"
    THEN LET q == query_model_info(cached.hash, env.resp) IN
         InfoResult(IF q.err = "none" THEN "none" ELSE "CivitAiError", q.info,
                    file, TRUE, FALSE, FALSE, TRUE, cached.hash, q.err)
    ELSE LET h == from_file(model, f, env.hash_fault) IN
         IF h.err # "none"
         THEN InfoResult("EldenError", NoInfo, file, FALSE, TRUE, FALSE, FALSE,
                         NoDigest, "none")
         ELSE LET st == cache_model_hash(h.hash, model, file, env.store_fault) IN
              IF st.err # "none"
              THEN InfoResult(st.err, NoInfo, st.file, FALSE, TRUE, TRUE, FALSE,
                              h.hash, "none")
              ELSE LET q == query_model_info(h.hash, env.resp) IN
                   InfoResult(IF q.err = "none" THEN "none" ELSE "CivitAiError",
                              q.info, st.file, FALSE, TRUE, TRUE, TRUE, h.hash,
                              q.err)

MoveFaults == {"none", "create_dir_all", "rename"}

MoveResult(err, f, new_path) == [err |-> err, fs |-> f, new_path |-> new_path]

\* .join(base_model): the label is joined as it came, not lower-cased
move_orphan_model_keeps_case(orphan_model, destination, model_type, base_model, f, fault) ==
    IF ~HasFileName(orphan_model) THEN MoveResult("ModelNotFound", f, <<>>)
    ELSE LET new_path == Join(Join(Join(destination,
                                 ParsePath(general_directory(model_type))),
                                 ParsePath(base_model)),
                              <<FileName(orphan_model)>>)
             new_parent == IF HasParent(new_path) THEN Parent(new_path)
                           ELSE destination
             made == IF Exists(f, new_parent) THEN FsResult(TRUE, f)
                     ELSE IF fault = "create_dir_all" THEN FsResult(FALSE, f)
                     ELSE CreateDirAll(f, new_parent)
         IN  IF ~made.ok THEN MoveResult("Io", made.fs, new_path)
             ELSE LET moved == IF fault = "rename" THEN FsResult(FALSE, made.fs)
                               ELSE Rename(made.fs, orphan_model, new_path)
                  IN  MoveResult(IF moved.ok THEN "none" ELSE "Io", moved.fs,
                                 new_path)

\* No create_dir_all: the rename is tried on the tree as it is
move_orphan_model_without_directories(orphan_model, destination, model_type, base_model, f, fault) ==
    IF ~HasFileName(orphan_model) THEN MoveResult("ModelNotFound", f, <<>>)
    ELSE LET new_path == Join(Join(Join(destination,
                                 ParsePath(general_directory(model_type))),
                                 ParsePath(ToLowercase(base_model))),
                              <<FileName(orphan_model)>>)
             moved == IF fault = "rename" THEN FsResult(FALSE, f)
                      ELSE Rename(f, orphan_model, new_path)
         IN  MoveResult(IF moved.ok THEN "none" ELSE "Io", moved.fs, new_path)

\* A destination that exists is an error: if new_path.exists() { return Err }
move_orphan_model_checks_collision(orphan_model, destination, model_type, base_model, f, fault) ==
    IF ~HasFileName(orphan_model) THEN MoveResult("ModelNotFound", f, <<>>)
    ELSE LET new_path == Join(Join(Join(destination,
                                 ParsePath(general_directory(model_type))),
                                 ParsePath(ToLowercase(base_model))),
                              <<FileName(orphan_model)>>)
             new_parent == IF HasParent(new_path) THEN Parent(new_path)
                           ELSE destination
             made == IF Exists(f, new_parent) THEN FsResult(TRUE, f)
                     ELSE IF fault = "create_dir_all" THEN FsResult(FALSE, f)
                     ELSE CreateDirAll(f, new_parent)
         IN  IF Exists(f, new_path) THEN MoveResult("Io", f, new_path)
             ELSE IF ~made.ok THEN MoveResult("Io", made.fs, new_path)
             ELSE LET moved == IF fault = "rename" THEN FsResult(FALSE, made.fs)
                               ELSE Rename(made.fs, orphan_model, new_path)
                  IN  MoveResult(IF moved.ok THEN "none" ELSE "Io", moved.fs,
                                 new_path)

\* move_orphan_model: destination / kind directory / lower-cased lineage /
\* file name; the directories are created when the parent does not exist,
\* then the file is renamed. A missing file name is the &str error
\* (APIError::ModelNotFound), an io::Error is APIError::Io.
move_orphan_model(orphan_model, destination, model_type, base_model, f, fault) ==
    IF ~HasFileName(orphan_model) THEN MoveResult("ModelNotFound", f, <<>>)
    ELSE LET new_path == Join(Join(Join(destination,
                                 ParsePath(general_directory(model_type))),
                                 ParsePath(ToLowercase(base_model))),
                              <<FileName(orphan_model)>>)
             new_parent == IF HasParent(new_path) THEN Parent(new_path)
                           ELSE destination
             made == IF Exists(f, new_parent) THEN FsResult(TRUE, f)
                     ELSE IF fault = "create_dir_all" THEN FsResult(FALSE, f)
                     ELSE CreateDirAll(f, new_parent)
         IN  IF ~made.ok THEN MoveResult("Io", made.fs, new_path)
             ELSE LET moved == IF fault = "rename" THEN FsResult(FALSE, made.fs)
                               ELSE Rename(made.fs, orphan_model, new_path)
                  IN  MoveResult(IF moved.ok THEN "none" ELSE "Io", moved.fs,
                                 new_path)

\* The extension of a file name of the model (Path::extension).
Extension(name) ==
    CASE name = "a.safetensors" -> "safetensors"
      [] name = "b.ckpt" -> "ckpt"
      [] name = "c.pt" -> "pt"
      [] name = "d.pth" -> "pth"
      [] name = "orphan_cache.json" -> "json"
      [] name = "notes.json" -> "json"
      [] name = "dir.ckpt" -> "ckpt"
      [] name = "n.pt" -> "pt"
      [] OTHER -> ""

AllowedExtensions == {"safetensors", "ckpt", "pt", "pth", "bin"}

CacheName == "orphan_cache.json"

\* Path::read_dir: the direct entries of root. The cache file is an entry
\* of root too.
ReadDir(root, f, file) ==
    {q \in DOMAIN f : Len(q) = Len(root) + 1 /\ IsPrefix(root, q)}
    \cup (IF file.st = "absent" THEN {} ELSE {Append(root, CacheName)})

\* The scan descends into the directories below root
get_orphan_models_recursive(root, f, file, unreadable) ==
    IF ~IsDir(f, root) THEN [err |-> "ModelNotFound", paths |-> {}]
    ELSE [err |-> "none",
          paths |-> {q \in ({p \in DOMAIN f : Len(p) > Len(root) /\ IsPrefix(root, p)}
                            \cup ReadDir(root, f, file)) \ unreadable :
                        /\ ~(q \in DOMAIN f /\ IsDir(f, q))
                        /\ Extension(FileName(q)) \in AllowedExtensions}]

\* The filter keeps every entry: no path.is_dir() test
get_orphan_models_with_directories(root, f, file, unreadable) ==
    IF ~IsDir(f, root) THEN [err |-> "ModelNotFound", paths |-> {}]
    ELSE [err |-> "none",
          paths |-> {q \in ReadDir(root, f, file) \ unreadable :
                        Extension(FileName(q)) \in AllowedExtensions}]

\* get_orphan_models: the entries of root that are no directory and carry
\* an allowed extension; an entry on which the iterator of read_dir fails
\* (unreadable) is passed over. A root that cannot be read is the &str error.
get_orphan_models(root, f, file, unreadable) ==
    IF ~IsDir(f, root) THEN [err |-> "ModelNotFound", paths |-> {}]
    ELSE [err |-> "none",
          paths |-> {q \in ReadDir(root, f, file) \ unreadable :
                        /\ ~(q \in DOMAIN f /\ IsDir(f, q))
                        /\ Extension(FileName(q)) \in AllowedExtensions}]

\* What the closure of sort_models does for one path.
Processed(path, err, stage, g, new_path, f, file, resp) ==
    [path |-> path, err |-> err, stage |-> stage, hit |-> g.hit,
     hashed |-> g.hashed, stored |-> g.stored, requested |-> g.requested,
     digest |-> g.digest, variant |-> g.variant,
     resp |-> IF g.requested THEN resp ELSE Transport,
     new_path |-> new_path, fs |-> f, cache |-> file]

\* The body of the for_each closure of sort_models.
process_orphan(path, root_path, f, file, env) ==
    LET g == get_model_info(path, file, f, env) IN
    IF g.err # "none"
    THEN Processed(path, g.err, "get_model_info", g, <<>>, f, g.cache, env.resp)
    ELSE LET model_type == g.info.model_type
             base_model == UnwrapOr(g.info.base_model, "Other")
             m == move_orphan_model(path, root_path, model_type, base_model, f,
                                    env.move_fault)
         IN  Processed(path, m.err,
                       IF m.err = "none" THEN "done" ELSE "move_orphan_model",
                       g, m.new_path, m.fs, g.cache, env.resp)

----------------------------------------------------------------------------
(* The pipeline specification: one run of sort_models over the root *)

\* The bytes of the orphan file with the i-th name.
ContentOf(i) == <<i % 2>>

\* The records the resolver of the model answers with.
ResolverInfos ==
    {ModelInfo("Lora", Some("Pony")), ModelInfo("Checkpoint", Some("SD 1.5")),
     ModelInfo("Vae", None), ModelInfo("Embedding", Some("pony")),
     ModelInfo("Controlnet", None), ModelInfo("Upscaler", Some("Pony")),
     ModelInfo("Lora", None)}

GoodResponses == {Http(200, Body(info)) : info \in ResolverInfos}

\* A record of the resolver with a key ModelInfo does not declare.
ExtendedBody ==
    [Body(ModelInfo("Lora", Some("Pony"))) EXCEPT
        !.fields = @ \cup {"extra"}]

FailedResponses ==
    {Transport, Http(404, BadBody), Http(500, BadBody), Http(200, BadBody),
     Http(200, ExtendedBody)}

PlainResponse == Http(200, Body(ModelInfo("Lora", Some("Pony"))))

\* The environments of one file's processing: the first call that fails
\* ends the processing, so one failure is drawn at most.
Environments ==
    {Env(TRUE, "none", PlainResponse, "none")}
    \cup {Env(FALSE, sf, PlainResponse, "none") : sf \in StoreFaults \ {"none"}}
    \cup {Env(FALSE, "none", r, "none") : r \in FailedResponses \cup GoodResponses}
    \cup {Env(FALSE, "none", PlainResponse, mf) : mf \in MoveFaults \ {"none"}}

\* The entries of the root that are no model files: a file of another
\* extension, a directory with a model file in it, and a directory whose
\* name ends in an allowed extension.
RootExtras ==
    (Root :> DirNode)
    @@ (Append(Root, "notes.json") :> FileNode(<<0>>))
    @@ (Append(Root, "sub") :> DirNode)
    @@ (Root \o <<"sub", "n.pt">> :> FileNode(<<1>>))
    @@ (Append(Root, "dir.ckpt") :> DirNode)

OrphanFiles(present) ==
    [q \in {Append(Root, NamePool[i]) : i \in present} |->
        FileNode(ContentOf(CHOOSE i \in present : Append(Root, NamePool[i]) = q))]

InitialCaches ==
    {Absent, Invalid, Document(EmptyMap)}
    \cup {Document(ToStringLossy(q) :> d) : q \in OrphanPaths, d \in Digests}

InitSort ==
    /\ \/ /\ \E present \in SUBSET (1..MaxFiles) :
                fs = OrphanFiles(present) @@ RootExtras
          /\ cache \in InitialCaches
       \/ /\ fs = NoEntries
          /\ cache = Absent
    /\ stores = <<>>
    /\ call = NoCall
    /\ phase = "idle"
    /\ scanned = <<>>
    /\ todo = <<>>
    /\ log = <<>>
    /\ start = IdleStart
    /\ links = <<>>

\* What sort_models returns.
SortCall(err) ==
    [op |-> "sort_models", path |-> Root, hash |-> NoDigest, fault |-> "none",
     err |-> err, out |-> NoDigest, pre |-> Absent]

\* The orders in which read_dir may list a set of paths.
Orders(paths) ==
    {order \in [1..Cardinality(paths) -> paths] :
        \A i, j \in 1..Cardinality(paths) : order[i] = order[j] => i = j}

\* The entries on which the iterator of read_dir may fail in one scan; for
\* an entry without an allowed extension it makes no difference.
Unreadables(root, f, file) ==
    {u \in SUBSET {q \in ReadDir(root, f, file) :
                      Extension(FileName(q)) \in AllowedExtensions} :
        Cardinality(u) <= MaxUnreadable}

\* sort_models up to the for_each: get_orphan_models(&root_path)?
SortStart ==
    /\ phase = "idle"
    /\ \E unreadable \in Unreadables(Root, fs, cache) :
          LET found == get_orphan_models(Root, fs, cache, unreadable) IN
          /\ IF found.err # "none"
             THEN /\ phase' = "done"
                  /\ call' = SortCall(found.err)
                  /\ UNCHANGED <<scanned, todo>>
             ELSE \E order \in Orders(found.paths) :
                     /\ scanned' = order
                     /\ todo' = order
                     /\ phase' = IF order = <<>> THEN "done" ELSE "running"
                     /\ call' = IF order = <<>> THEN SortCall("none") ELSE call
          /\ start' = [fs |-> fs, cache |-> cache, unreadable |-> unreadable,
                       run |-> 1, earlier |-> <<>>]
    /\ UNCHANGED <<cache, stores, fs, log, links>>

\* The injected failure that ended the processing recorded as r, if any.
Struck(r, env) ==
    CASE r.hashed /\ r.err = "EldenError" /\ env.hash_fault -> "hash"
      [] r.stored /\ r.stage = "get_model_info" /\ ~r.requested -> env.store_fault
      [] r.stage = "move_orphan_model" -> env.move_fault
      [] OTHER -> "none"

LogEntry(r, env) ==
    [path |-> r.path, err |-> r.err, stage |-> r.stage, hit |-> r.hit,
     hashed |-> r.hashed, stored |-> r.stored, requested |-> r.requested,
     digest |-> r.digest, variant |-> r.variant, resp |-> r.resp,
     new_path |-> r.new_path, fault |-> Struck(r, env)]

\* The first error ends the run: get_model_info(...)? inside a for loop
SortStepAborting ==
    /\ phase = "running"
    /\ \E env \in Environments :
          LET r == process_orphan(Head(todo), Root, fs, cache, env) IN
          /\ fs' = r.fs
          /\ cache' = r.cache
          /\ log' = Append(log, LogEntry(r, env))
          /\ todo' = IF r.err # "none" THEN <<>> ELSE Tail(todo)
          /\ phase' = IF r.err # "none" \/ Tail(todo) = <<>> THEN "done"
                      ELSE "running"
          /\ call' = IF r.err # "none" THEN SortCall(r.err)
                     ELSE IF Tail(todo) = <<>> THEN SortCall("none")
                     ELSE call
    /\ UNCHANGED <<stores, scanned, start, links>>

\* One turn of the for_each of sort_models: the closure on the next path.
\* An error is logged and the loop goes on; after the last path Ok(()).
SortStepIn(envs) ==
    /\ phase = "running"
    /\ \E env \in envs :
          LET r == process_orphan(Head(todo), Root, fs, cache, env) IN
          /\ fs' = r.fs
          /\ cache' = r.cache
          /\ log' = Append(log, LogEntry(r, env))
          /\ todo' = Tail(todo)
          /\ phase' = IF Tail(todo) = <<>> THEN "done" ELSE "running"
          /\ call' = IF Tail(todo) = <<>> THEN SortCall("none") ELSE call
    /\ UNCHANGED <<stores, scanned, start, links>>

SortStep == SortStepIn(Environments)

NextSort == SortStart \/ SortStep

SpecSort == InitSort /\ [][NextSort]_vars

----------------------------------------------------------------------------
(* Claims on the pipeline *)

LogPaths == [i \in 1..Len(log) |-> log[i].path]

\* C8: per-item isolation. A failure on one file (hash, cache, resolver or
\* relocation) never keeps a later file of the scan from being processed:
\* the files processed and the files still to come are always the scan, and
\* once the root was scanned the run ends with each scanned file attempted
\* exactly once and sort_models returning Ok.
PerItemIsolation ==
    /\ phase \in {"running", "done"} => LogPaths \o todo = scanned
    /\ phase = "running" => todo # <<>>
    /\ (phase = "done" /\ IsDir(start.fs, Root)) =>
           /\ call.op = "sort_models" /\ call.err = "none"
           /\ todo = <<>>
           /\ \A q \in {scanned[i] : i \in 1..Len(scanned)} :
                  Cardinality({i \in 1..Len(log) : log[i].path = q}) = 1

\* The run is over: the first file failed and the second was still moved.
PerItemIsolationWitness ==
    /\ phase = "done"
    /\ Len(log) = 2
    /\ log[1].err # "none"
    /\ log[2].err = "none"
    /\ log[2].stage = "done"

\* The directory the claim names for each model kind.
DirectoryOfKind(kind) ==
    CASE kind = "Checkpoint" -> "checkpoints"
      [] kind = "Embedding" -> "embeddings"
      [] kind = "Lora" -> "loras"
      [] kind = "Controlnet" -> "controlnet"
      [] kind = "Upscaler" -> "upscale_models"
      [] kind = "Vae" -> "vae"

\* The start of a run: one model file in the root and no cache file.
OneFileNoCache ==
    /\ phase = "done"
    /\ Len(scanned) = 1
    /\ start.cache.st = "absent"
    /\ Len(log) = 1

\* The resolver answered the file's digest with a kind and a base lineage,
\* and no call of the pipeline failed.
ResolvedWithLineage(e) ==
    /\ e.fault = "none"
    /\ e.requested
    /\ e.resp.sent /\ e.resp.status = 200 /\ from_json(e.resp.body).ok
    /\ e.resp.body.info.base_model.some

\* C9: end-to-end success. With one whitelisted file f in the root, no
\* cache file and a resolver that returns kind K and base lineage L for the
\* digest of f, after sort_models the file is at
\* <root>/<directory of K>/<L lower-cased>/<file name of f> and no longer at
\* its first path, and the cache holds exactly one entry: f's first path ->
\* the digest of f's bytes.
EndToEndSuccess ==
    (OneFileNoCache /\ ResolvedWithLineage(log[1])) =>
        LET e == log[1]
            f == scanned[1]
            info == e.resp.body.info
            bytes == start.fs[f].data
            dest == Root \o <<DirectoryOfKind(info.model_type),
                              ToLowercase(info.base_model.v),
                              FileName(f)>>
        IN  /\ e.err = "none"
            /\ e.digest = Sha256Hex(bytes)
            /\ dest \in DOMAIN fs
            /\ fs[dest] = FileNode(bytes)
            /\ f \notin DOMAIN fs
            /\ cache.st = "map"
            /\ DOMAIN cache.map = {ToStringLossy(f)}
            /\ cache.map[ToStringLossy(f)] = Sha256Hex(bytes)

\* The run of the spec's scenario, with a label that has upper-case letters.
EndToEndSuccessWitness ==
    /\ OneFileNoCache
    /\ ResolvedWithLineage(log[1])
    /\ log[1].resp.body.info = ModelInfo("Lora", Some("Pony"))
    /\ <<"models", "loras", "pony", "a.safetensors">> \in DOMAIN fs

\* The resolver was asked and did not give a record: no response, a status
\* that is no success, or a body that does not deserialize.
ResolverFailed(e) ==
    /\ e.requested
    /\ \/ ~e.resp.sent
       \/ e.resp.status < 200 \/ e.resp.status >= 300
       \/ ~from_json(e.resp.body).ok

\* No response, or a status that is neither a success nor a 5xx.
NotFoundOrUnreachable(e) ==
    /\ e.requested
    /\ \/ ~e.resp.sent
       \/ /\ e.resp.status < 200 \/ e.resp.status >= 300
          /\ e.resp.status < 500 \/ e.resp.status >= 600

\* What the caller of get_model_info sees of a failure.
Outcome(e) == <<e.err, e.variant, e.stage, e.new_path>>

\* C10: a resolver failure leaves the file in place and keeps the digest.
\* When the resolver fails for a file's digest, the file is not relocated
\* and is still at its path with its bytes, and the cache holds the entry
\* path -> digest (the digest of the bytes when the file was hashed in this
\* run); no response at all and a non-5xx non-success status give the caller
\* the same outcome.
ResolverFailureKeepsDigest ==
    /\ (Len(log) > 0 /\ ResolverFailed(log[Len(log)])) =>
           LET e == log[Len(log)] IN
           /\ e.err = "CivitAiError"
           /\ e.stage = "get_model_info"
           /\ e.path \in DOMAIN fs
           /\ fs[e.path] = start.fs[e.path]
           /\ cache.st = "map"
           /\ ToStringLossy(e.path) \in DOMAIN cache.map
           /\ cache.map[ToStringLossy(e.path)] = e.digest
           /\ ~e.hit => e.digest = Sha256Hex(start.fs[e.path].data)
    /\ \A i, j \in 1..Len(log) :
           (NotFoundOrUnreachable(log[i]) /\ NotFoundOrUnreachable(log[j])) =>
               Outcome(log[i]) = Outcome(log[j])

\* A file hashed in this run got a 404, and another one got no response.
ResolverFailureKeepsDigestWitness ==
    /\ Len(log) = 2
    /\ ~log[1].hit
    /\ log[1].requested /\ log[1].resp.sent /\ log[1].resp.status = 404
    /\ ~log[2].hit
    /\ log[2].requested /\ ~log[2].resp.sent
    /\ cache.st = "map"
    /\ DOMAIN cache.map = {ToStringLossy(log[1].path), ToStringLossy(log[2].path)}

\* A 5xx status answered the request made for this file.
ServiceError(e) ==
    /\ e.requested
    /\ e.resp.sent
    /\ e.resp.status >= 500 /\ e.resp.status < 600

\* C11: an HTTP 5xx response gives the caller another failure kind than
\* "model not found / unreachable" does: another variant of CivitAiError
\* from query_model_info, and another variant of APIError from
\* get_model_info.
ServiceErrorDistinguishable ==
    \A i, j \in 1..Len(log) :
        (ServiceError(log[i]) /\ NotFoundOrUnreachable(log[j])) =>
            /\ log[i].variant # log[j].variant
            /\ log[i].err # log[j].err

\* C11, the part that holds: a 5xx response is a failure of the file's
\* processing, after the one request made for it.
ServiceErrorIsFailure ==
    \A i \in 1..Len(log) :
        ServiceError(log[i]) =>
            /\ log[i].err = "CivitAiError"
            /\ log[i].stage = "get_model_info"

\* The processing recorded as e got a record from the resolver and went on
\* to the relocation, which computed a destination.
Classified(e) ==
    /\ e.stage \in {"done", "move_orphan_model"}
    /\ e.new_path # <<>>

\* The lineage subdirectory the claim names: the label lower-cased, "other"
\* when the record has none.
LineageLabel(base_model) ==
    IF ~base_model.some THEN "other"
    ELSE CASE base_model.v = "SD 1.5" -> "sd 1.5"
           [] base_model.v = "Pony" -> "pony"
           [] base_model.v = "pony" -> "pony"

\* The category of a destination: the path between the root and the name.
CategoryOf(e) == SubSeq(e.new_path, Len(Root) + 1, Len(e.new_path) - 1)

\* C12: classification. For every model kind and base lineage the
\* destination category is the kind's directory of the fixed table, one
\* distinct directory per kind, joined with the lower-cased lineage label,
\* or with "other" when the record has no lineage; (Checkpoint, "SD 1.5")
\* gives checkpoints/sd 1.5 and (LoRA, none) gives loras/other; the category
\* depends on nothing but the kind and the lineage.
Classification ==
    /\ \A k1, k2 \in ModelTypes :
           general_directory(k1) = general_directory(k2) => k1 = k2
    /\ \A i \in 1..Len(log) :
           Classified(log[i]) =>
               LET info == log[i].resp.body.info IN
               /\ IsPrefix(Root, log[i].new_path)
               /\ FileName(log[i].new_path) = FileName(log[i].path)
               /\ CategoryOf(log[i]) = <<DirectoryOfKind(info.model_type),
                                         LineageLabel(info.base_model)>>
               /\ info = ModelInfo("Checkpoint", Some("SD 1.5")) =>
                      CategoryOf(log[i]) = <<"checkpoints", "sd 1.5">>
               /\ info = ModelInfo("Lora", None) =>
                      CategoryOf(log[i]) = <<"loras", "other">>
    /\ \A i, j \in 1..Len(log) :
           (/\ Classified(log[i]) /\ Classified(log[j])
            /\ log[i].resp.body.info = log[j].resp.body.info) =>
               CategoryOf(log[i]) = CategoryOf(log[j])

\* Two files of one run were classified: a checkpoint of lineage "SD 1.5",
\* reached through a cache hit, and a LoRA without lineage, hashed in the run.
ClassificationWitness ==
    /\ Len(log) = 2
    /\ Classified(log[1]) /\ Classified(log[2])
    /\ log[1].hit /\ ~log[2].hit
    /\ log[1].resp.body.info = ModelInfo("Checkpoint", Some("SD 1.5"))
    /\ log[2].resp.body.info = ModelInfo("Lora", None)
    /\ CategoryOf(log[1]) = <<"checkpoints", "sd 1.5">>
    /\ CategoryOf(log[2]) = <<"loras", "other">>

\* The direct entries of the root when the run began, the cache file among
\* them when it existed.
RootEntries ==
    {q \in DOMAIN start.fs : Len(q) = Len(Root) + 1 /\ Parent(q) = Root}
    \cup (IF start.cache.st = "absent" THEN {} ELSE {Root \o <<"orphan_cache.json">>})

\* C13: scanner whitelist. get_orphan_models(root) returns, once each,
\* exactly the direct entries of root that could be read, are no directory
\* and have an extension among safetensors, ckpt, pt, pth, bin; nothing
\* below a subdirectory; an entry that cannot be read is passed over and the
\* scan does not fail; the cache file orphan_cache.json is never returned.
ScannerWhitelist ==
    (phase # "idle" /\ IsDir(start.fs, Root)) =>
        /\ {scanned[i] : i \in 1..Len(scanned)} =
               {q \in RootEntries \ start.unreadable :
                   /\ ~(q \in DOMAIN start.fs /\ start.fs[q].kind = "dir")
                   /\ Extension(FileName(q)) \in
                          {"safetensors", "ckpt", "pt", "pth", "bin"}}
        /\ \A i, j \in 1..Len(scanned) : scanned[i] = scanned[j] => i = j
        /\ Root \o <<"orphan_cache.json">> \notin
               {scanned[i] : i \in 1..Len(scanned)}
        /\ phase = "done" => call.err = "none"

\* The root held a.safetensors, b.ckpt, a .json file, subdirectories and the
\* cache file; b.ckpt could not be read; the scan returned a.safetensors.
ScannerWhitelistWitness ==
    /\ phase = "running"
    /\ start.cache.st = "map"
    /\ {Root \o <<"a.safetensors">>, Root \o <<"b.ckpt">>,
        Root \o <<"notes.json">>, Root \o <<"sub">>,
        Root \o <<"dir.ckpt">>, Root \o <<"orphan_cache.json">>} = RootEntries
    /\ start.unreadable = {Root \o <<"b.ckpt">>}
    /\ scanned = <<Root \o <<"a.safetensors">>>>

----------------------------------------------------------------------------
(* The relocation specification: move_orphan_model called on its own *)

\* What stands in the way of a relocation to loras/pony when the calls
\* begin: nothing, a file where the kind's directory goes, a directory
\* where the file goes, or a file of the same name left there before.
MoveBlockers == {"none", "kind_is_file", "name_is_dir", "name_is_file"}

Blocker(b) ==
    CASE b = "kind_is_file" -> (Root \o <<"loras">> :> FileNode(<<0>>))
      [] b = "name_is_dir" ->
             (Root \o <<"loras">> :> DirNode)
             @@ (Root \o <<"loras", "pony">> :> DirNode)
             @@ (Root \o <<"loras", "pony", "a.safetensors">> :> DirNode)
      [] b = "name_is_file" ->
             (Root \o <<"loras">> :> DirNode)
             @@ (Root \o <<"loras", "pony">> :> DirNode)
             @@ (Root \o <<"loras", "pony", "a.safetensors">> :> FileNode(<<0>>))
      [] OTHER -> NoEntries

\* The paths move_orphan_model is called on: the model files, and two paths
\* without a file name: <root>/.. and the filesystem root.
MoveSources == OrphanPaths \cup {Append(Root, ".."), <<>>}

MoveKinds == {"Lora", "Vae"}

MoveLabels == {"Pony"}

InitMove ==
    /\ \E present \in SUBSET (1..MaxFiles), b \in MoveBlockers :
          fs = OrphanFiles(present) @@ RootExtras @@ Blocker(b)
    /\ cache = Absent
    /\ stores = <<>>
    /\ call = NoCall
    /\ phase = "idle"
    /\ scanned = <<>>
    /\ todo = <<>>
    /\ log = <<>>
    /\ start = IdleStart
    /\ links = <<>>

\* One call of move_orphan_model(orphan_model, root, model_type, base_model).
MoveOrphanModel(orphan_model, model_type, base_model, fault) ==
    /\ LET r == move_orphan_model(orphan_model, Root, model_type, base_model,
                                  fs, fault) IN
       /\ fs' = r.fs
       /\ call' = [op |-> "move_orphan_model", path |-> orphan_model,
                   hash |-> NoDigest, fault |-> fault, err |-> r.err,
                   out |-> NoDigest, pre |-> Absent, before |-> fs,
                   new_path |-> r.new_path, model_type |-> model_type,
                   base_model |-> base_model]
    /\ UNCHANGED <<cache, stores, phase, scanned, todo, log, start, links>>

NextMove ==
    \E orphan_model \in MoveSources, model_type \in MoveKinds,
       base_model \in MoveLabels, fault \in MoveFaults :
        MoveOrphanModel(orphan_model, model_type, base_model, fault)

SpecMove == InitMove /\ [][NextMove]_vars

----------------------------------------------------------------------------
(* Claims on the relocation *)

MoveFailed == call.op = "move_orphan_model" /\ call.err # "none"

\* The file is where it was with the bytes it had, and where it was to go
\* there is nothing that was not there before.
LeftInPlace ==
    /\ (call.path \in DOMAIN call.before /\ call.before[call.path].kind = "file") =>
           /\ call.path \in DOMAIN fs
           /\ fs[call.path] = call.before[call.path]
    /\ (call.new_path # <<>> /\ call.new_path \in DOMAIN fs) =>
           /\ call.new_path \in DOMAIN call.before
           /\ fs[call.new_path] = call.before[call.new_path]

\* C14: relocation failure is atomic for the file and is an I/O error.
\* Whenever move_orphan_model returns an error (no file-name component, the
\* directories cannot be created, the rename fails), the source file is
\* still at its path with its bytes, no copy of it is at the destination,
\* and the error is APIError::Io.
RelocationFailure ==
    MoveFailed => (LeftInPlace /\ call.err = "Io")

\* C14, the part that holds: the file is left where it was.
RelocationFailureLeavesFile ==
    MoveFailed => LeftInPlace

----------------------------------------------------------------------------
(* Claims on the failures of the link reconciliation *)

\* The entries at and below the target path of category c.
TargetTree(f, c) == [q \in {p \in DOMAIN f : IsPrefix(Satellite[c], p)} |-> f[q]]

\* C15: reconciliation failures are independent per category. When one
\* category fails, soft_link_to still attempts every remaining category: a
\* category whose target path was free, which create_symlink links whenever
\* it runs, has its link after the call, whatever happened to the others.
ReconciliationPerCategory ==
    \A i \in 1..Len(links) :
        \A k \in 1..Len(FieldsOf(links[i].impl)) :
            LET c == FieldsOf(links[i].impl)[k] IN
            ~LExists(links[i].pre, Satellite[c]) => LinkedTo(links[i].post, c)

\* C15, what holds instead: the first failure ends the call. The categories
\* before it have their links, the ones after it are as they were.
ReconciliationStopsAtFirstFailure ==
    \A i \in 1..Len(links) :
        links[i].failed # 0 =>
            /\ links[i].err = "Io"
            /\ \A k \in 1..Len(FieldsOf(links[i].impl)) :
                  LET c == FieldsOf(links[i].impl)[k] IN
                  /\ k < links[i].failed => LinkedTo(links[i].post, c)
                  /\ k > links[i].failed =>
                         TargetTree(links[i].post, c) = TargetTree(links[i].pre, c)

----------------------------------------------------------------------------
(* Hard links: create_hard_link of link.rs and hard_link_to *)

\* std::fs::hard_link (linkat without flags): a second name for the entry
\* at source, a symbolic link there not followed; EPERM for a directory,
\* ENOENT for a missing source or a missing directory of the new name,
\* EEXIST when an entry has the new name.
HardLink(f, source, p) ==
    LET a == Entry(f, source)
        b == Entry(f, p)
    IN  IF ~(a.ok /\ a.path \in DOMAIN f /\ f[a.path].kind # "dir")
        THEN FsResult(FALSE, f)
        ELSE IF ~b.ok \/ b.path = <<>> \/ b.path \in DOMAIN f
        THEN FsResult(FALSE, f)
        ELSE FsResult(TRUE, With(f, b.path, f[a.path]))

\* No source.is_dir() test: the target is cleared before hard_link is tried
create_hard_link_unguarded(source, target, f) ==
    LET ready == IF Exists(f, target) THEN remove_existing_path(target, f)
                 ELSE ensure_parent_directory(target, f)
    IN  IF ~ready.ok THEN LinkResult("Io", ready.fs)
        ELSE LET made == HardLink(ready.fs, source, target) IN
             LinkResult(IF made.ok THEN "none" ELSE "Io", made.fs)

\* create_hard_link: a source that is a directory is refused first; then an
\* existing target is removed, or the parent of a missing one created, and
\* the link made. Every io::Error becomes LinkError::Io.
create_hard_link(source, target, f) ==
    IF IsDir(f, source) THEN LinkResult("Io", f)
    ELSE LET ready == IF Exists(f, target) THEN remove_existing_path(target, f)
                      ELSE ensure_parent_directory(target, f)
         IN  IF ~ready.ok THEN LinkResult("Io", ready.fs)
             ELSE LET made == HardLink(ready.fs, source, target) IN
                  LinkResult(IF made.ok THEN "none" ELSE "Io", made.fs)

RECURSIVE HardLinkLoop(_, _, _, _, _)
\* for (from, to_path) in paths { link::create_hard_link(from, to_path)?; }
HardLinkLoop(fields, from, to, i, f) ==
    IF i > Len(fields) THEN SoftLinkResult("none", f, 0)
    ELSE LET r == create_hard_link(from[fields[i]], to[fields[i]], f) IN
         IF r.err # "none" THEN SoftLinkResult("Io", r.fs, i)
         ELSE HardLinkLoop(fields, from, to, i + 1, r.fs)

\* FolderStructure::hard_link_to of configuration.rs (six pairs)
hard_link_to(from, to, f) == HardLinkLoop(ConfigurationFields, from, to, 1, f)

----------------------------------------------------------------------------
(* The hard-link specification: hard links asked for on one tree *)

\* The categories whose paths vary when the calls begin: the first two of
\* hard_link_to's order.
HardLinkCategories == {"checkpoints", "loras"}

\* A canonical path may be a directory, nothing, a file or a symbolic link
\* to a directory.
HardLinkStates ==
    [canonical : {"dir", "missing", "file", "link_dir"}, target : TargetStates]

InitHardLink ==
    /\ \E choice \in [HardLinkCategories -> HardLinkStates] :
          LET states == [c \in Categories |->
                            IF c \in HardLinkCategories THEN choice[c]
                            ELSE DefaultState]
          IN  fs = TreeOf(states, 1)
                   @@ (Root :> DirNode) @@ (Elsewhere :> DirNode)
                   @@ (SatelliteRoot :> DirNode)
    /\ links = <<>>
    /\ cache = Absent
    /\ stores = <<>>
    /\ call = NoCall
    /\ phase = "idle"
    /\ scanned = <<>>
    /\ todo = <<>>
    /\ log = <<>>
    /\ start = IdleStart

HardLinkCall(impl, source, r) ==
    /\ fs' = r.fs
    /\ links' = Append(links, [impl |-> impl, source |-> source, err |-> r.err,
                               failed |-> r.failed, pre |-> fs, post |-> r.fs])
    /\ UNCHANGED <<cache, stores, call, phase, scanned, todo, log, start>>

\* link::create_hard_link(from, to_path) for one category
CreateHardLink(c) ==
    /\ Len(links) < MaxLinkCalls
    /\ LET r == create_hard_link(Canonical[c], Satellite[c], fs) IN
       HardLinkCall("create_hard_link", Canonical[c],
                    SoftLinkResult(r.err, r.fs, 0))

\* models_structure.hard_link_to(&comfyui_structure)
HardLinkTo ==
    /\ Len(links) < MaxLinkCalls
    /\ HardLinkCall("hard_link_to", Canonical[ConfigurationFields[1]],
                    hard_link_to(Canonical, Satellite, fs))

NextHardLink ==
    \/ \E c \in HardLinkCategories : CreateHardLink(c)
    \/ HardLinkTo

SpecHardLink == InitHardLink /\ [][NextHardLink]_vars

----------------------------------------------------------------------------
(* Claims on hard links *)

\* C16: hard-linking a directory fails fast. When the source path is a
\* directory, create_hard_link returns an error and the filesystem is as it
\* was: an existing target is neither removed nor replaced and no parent
\* directory is created; hard_link_to, whose first source is a directory,
\* fails the same way.
HardLinkOfDirectoryFailsFast ==
    \A i \in 1..Len(links) :
        IsDir(links[i].pre, links[i].source) =>
            /\ links[i].err # "none"
            /\ links[i].post = links[i].pre

\* create_hard_link was called with a directory as its source while a
\* directory with a file in it stood at the target.
HardLinkOfDirectoryFailsFastWitness ==
    \E i \in 1..Len(links) :
        /\ links[i].impl = "create_hard_link"
        /\ links[i].source = Canonical["loras"]
        /\ IsDir(links[i].pre, Canonical["loras"])
        /\ Append(Satellite["loras"], "x.bin") \in DOMAIN links[i].pre
        /\ Append(Satellite["loras"], "x.bin") \in DOMAIN links[i].post
        /\ links[i].err = "Io"

----------------------------------------------------------------------------
(* The resolver specification: query_model_info on the answers of the      *)
(* metadata endpoint                                                       *)

\* The keys a body of the model may have besides the required ones: an
\* optional one, one ModelInfo does not declare and one ModelData does not
\* declare.
OtherFields == {"baseModel", "extra", "model.extra"}

\* The sets of keys of the bodies: the required keys, all or all but one,
\* with any of the other keys.
BodyFields ==
    {(RequiredFields \ lacking) \cup others :
        lacking \in {{}} \cup {{k} : k \in RequiredFields},
        others \in SUBSET OtherFields}

\* A JSON object with the given keys; model.type names a LoRA and baseModel
\* is "Pony" where the keys are there.
BodyOf(fields) ==
    [json |-> TRUE, fields |-> fields,
     info |-> ModelInfo(IF "model.type" \in fields THEN "Lora" ELSE "none",
                        IF "baseModel" \in fields THEN Some("Pony") ELSE None)]

Responses ==
    {Transport, Http(404, BadBody), Http(500, BadBody), Http(200, BadBody)}
    \cup {Http(200, BodyOf(fields)) : fields \in BodyFields}

InitResolver ==
    /\ call = NoCall
    /\ cache = Absent
    /\ stores = <<>>
    /\ fs = IdleFs
    /\ phase = "idle"
    /\ scanned = <<>>
    /\ todo = <<>>
    /\ log = <<>>
    /\ start = IdleStart
    /\ links = <<>>

\* One call of query_model_info(hash), answered with resp.
QueryModelInfo(hash, resp) ==
    /\ LET r == query_model_info(hash, resp) IN
       call' = [op |-> "query_model_info", path |-> <<>>, hash |-> hash,
                fault |-> "none", err |-> r.err, out |-> NoDigest,
                pre |-> Absent, resp |-> resp, msg |-> r.msg, info |-> r.info]
    /\ UNCHANGED <<cache, stores, fs, phase, scanned, todo, log, start, links>>

NextResolver == \E hash \in Digests, resp \in Responses : QueryModelInfo(hash, resp)

SpecResolver == InitResolver /\ [][NextResolver]_vars

----------------------------------------------------------------------------
(* Claims on the resolver *)

\* query_model_info got a 2xx answer whose body is a JSON object.
AnsweredWithObject ==
    /\ call.op = "query_model_info"
    /\ call.resp.sent
    /\ call.resp.status >= 200 /\ call.resp.status < 300
    /\ call.resp.body.json

\* The keys the spec lists for the metadata record.
ListedFields ==
    {"id", "modelId", "model.type", "model.nsfw", "model.poi", "files", "images"}

\* C17: deserialization of a 2xx body does not fail because of a key the
\* record does not know or because an optional key is missing: every body
\* that has id, modelId, model.type, model.nsfw, model.poi, files and images
\* deserializes, whatever other keys it has.
DeserializationTolerant ==
    (AnsweredWithObject /\ ListedFields \subseteq call.resp.body.fields) =>
        /\ call.err = "none"
        /\ call.info = call.resp.body.info

\* C17, what holds instead: the body deserializes exactly when it also has
\* stats and trainedWords and no top-level key outside ModelInfo's own; a
\* key unknown to the nested model object is passed over, and a missing
\* baseModel reads as none.
DeserializationStrict ==
    AnsweredWithObject =>
        LET fields == call.resp.body.fields IN
        (call.err = "none") <=>
            /\ ListedFields \cup {"stats", "trainedWords"} \subseteq fields
            /\ "extra" \notin fields

----------------------------------------------------------------------------
(* The re-run specification: sort_models run again over the same root *)

\* What the environment answers in these runs: a record for a LoRA of
\* lineage "Pony", a record for a VAE without lineage, or a 404 (the file
\* stays in the root with its digest cached).
RerunEnvironments ==
    {Env(FALSE, "none", PlainResponse, "none"),
     Env(FALSE, "none", Http(200, Body(ModelInfo("Vae", None))), "none"),
     Env(FALSE, "none", Http(404, BadBody), "none")}

RerunStep == SortStepIn(RerunEnvironments)

\* sort_models called again after it returned, up to the for_each. What the
\* run just before it scanned and did is kept for the claims.
SortAgain ==
    /\ phase = "done"
    /\ start.run < MaxRuns
    /\ \E unreadable \in Unreadables(Root, fs, cache) :
          LET found == get_orphan_models(Root, fs, cache, unreadable) IN
          /\ IF found.err # "none"
             THEN /\ phase' = "done"
                  /\ call' = SortCall(found.err)
                  /\ scanned' = <<>>
                  /\ todo' = <<>>
             ELSE \E order \in Orders(found.paths) :
                     /\ scanned' = order
                     /\ todo' = order
                     /\ phase' = IF order = <<>> THEN "done" ELSE "running"
                     /\ call' = IF order = <<>> THEN SortCall("none") ELSE NoCall
          /\ start' = [fs |-> fs, cache |-> cache, unreadable |-> unreadable,
                       run |-> start.run + 1,
                       earlier |-> <<[fs |-> start.fs, cache |-> start.cache,
                                      scanned |-> scanned, log |-> log]>>]
    /\ log' = <<>>
    /\ UNCHANGED <<cache, stores, fs, links>>

NextRerun == SortStart \/ RerunStep \/ SortAgain

SpecRerun == InitSort /\ [][NextRerun]_vars

----------------------------------------------------------------------------
(* Claims on re-running the pipeline *)

\* The orphan files of a root: its direct entries that are no directory and
\* have a whitelisted extension.
OrphansOf(f) ==
    {q \in DOMAIN f :
        /\ Len(q) = Len(Root) + 1 /\ Parent(q) = Root
        /\ f[q].kind # "dir"
        /\ Extension(FileName(q)) \in {"safetensors", "ckpt", "pt", "pth", "bin"}}

\* In the run recorded as r there were orphan files and each of them was
\* relocated.
AllRelocated(r) ==
    /\ OrphansOf(r.fs) # {}
    /\ \A q \in OrphansOf(r.fs) :
           \E i \in 1..Len(r.log) :
               /\ r.log[i].path = q
               /\ r.log[i].err = "none"
               /\ r.log[i].stage = "done"

\* C18: re-running converges. After a run of sort_models in which every
\* orphan file was relocated, the next run over the same root finds no
\* orphan file, processes nothing (no relocation, no metadata request),
\* returns Ok and leaves the tree and the cache as they were.
RerunConverges ==
    (start.run >= 2 /\ AllRelocated(start.earlier[1])) =>
        /\ OrphansOf(start.fs) = {}
        /\ scanned = <<>>
        /\ phase = "done"
        /\ log = <<>>
        /\ call.op = "sort_models" /\ call.err = "none"
        /\ fs = start.fs
        /\ cache = start.cache

\* The first run relocated two files into different categories and stored
\* their digests; the second run is over.
RerunConvergesWitness ==
    /\ start.run = 2
    /\ AllRelocated(start.earlier[1])
    /\ Len(start.earlier[1].log) = 2
    /\ start.earlier[1].log[1].new_path[2] # start.earlier[1].log[2].new_path[2]
    /\ cache.st = "map"
    /\ Cardinality(DOMAIN cache.map) = 2
    /\ phase = "done"

----------------------------------------------------------------------------
(* The hash specification: calculate_hash_sha256 on a reader that hands    *)
(* out the stream in pieces of its own choosing                            *)

RECURSIVE Streams(_)
\* The byte sequences of length n.
Streams(n) ==
    IF n = 0 THEN {<<>>}
    ELSE {Append(s, b) : s \in Streams(n - 1), b \in Bytes}

HashInputs == UNION {Streams(n) : n \in 0..MaxBytes}

\* A call of calculate_hash_sha256 on a reader over bytes: the bytes not
\* yet read, the sizes of the reads so far, the context and the buffer.
HashCall(bytes, rest, reads, context, buffer, state, err, out) ==
    [op |-> "calculate_hash_sha256", path |-> <<>>, hash |-> NoDigest,
     fault |-> "none", err |-> err, out |-> out, pre |-> Absent,
     bytes |-> bytes, rest |-> rest, reads |-> reads, context |-> context,
     buffer |-> buffer, state |-> state]

InitHash ==
    /\ call = NoCall
    /\ cache = Absent
    /\ stores = <<>>
    /\ fs = IdleFs
    /\ phase = "idle"
    /\ scanned = <<>>
    /\ todo = <<>>
    /\ log = <<>>
    /\ start = IdleStart
    /\ links = <<>>

Hashing == call.op = "calculate_hash_sha256" /\ call.state = "reading"

\* calculate_hash_sha256(reader) is entered: a new context, a zeroed buffer.
HashOpen(bytes) ==
    /\ ~Hashing
    /\ call' = HashCall(bytes, bytes, <<>>, NewContext, NewBuffer, "reading",
                        "none", NoDigest)
    /\ UNCHANGED <<cache, stores, fs, phase, scanned, todo, log, start, links>>

\* One turn of the loop: read returns count > 0 bytes, which are absorbed.
HashRead(count) ==
    /\ Hashing
    /\ count <= Len(call.rest)
    /\ LET filled == ReadInto(call.buffer, SubSeq(call.rest, 1, count)) IN
       call' = [call EXCEPT
                   !.rest = SubSeq(@, count + 1, Len(@)),
                   !.reads = Append(@, count),
                   !.context = update_read(@, filled, count),
                   !.buffer = filled]
    /\ UNCHANGED <<cache, stores, fs, phase, scanned, todo, log, start, links>>

\* read returns 0 at the end of the stream: finish, encode, Ok(hash).
HashFinish ==
    /\ Hashing
    /\ call.rest = <<>>
    /\ call' = [call EXCEPT !.state = "done",
                            !.out = HexUpper(Finish(call.context))]
    /\ UNCHANGED <<cache, stores, fs, phase, scanned, todo, log, start, links>>

\* read returns an error: reader.read(&mut buffer)? gives EldenError::Io.
HashReadError ==
    /\ Hashing
    /\ call' = [call EXCEPT !.state = "done", !.err = "Io"]
    /\ UNCHANGED <<cache, stores, fs, phase, scanned, todo, log, start, links>>

NextHash ==
    \/ \E bytes \in HashInputs : HashOpen(bytes)
    \/ \E count \in 1..BufferSize : HashRead(count)
    \/ HashFinish
    \/ HashReadError

SpecHash == InitHash /\ [][NextHash]_vars

----------------------------------------------------------------------------
(* Claims on the hash *)

\* calculate_hash_sha256 returned a digest.
Hashed ==
    /\ call.op = "calculate_hash_sha256"
    /\ call.state = "done"
    /\ call.err = "none"

UpperHexDigits ==
    {"0", "1", "2", "3", "4", "5", "6", "7", "8", "9", "A", "B", "C", "D",
     "E", "F"}

\* C19: hash determinism. The digest calculate_hash_sha256 returns is a
\* function of the byte sequence alone: it is the digest of the whole
\* sequence however the reader split it into reads of one byte up to the
\* buffer's length, and so the same on every call; and it is a string of
\* upper-case hexadecimal digits of one fixed length.
HashDeterminism ==
    /\ Hashed =>
           /\ call.out = Sha256Hex(call.bytes)
           /\ call.out = calculate_hash_sha256(call.bytes)
           /\ Len(call.out) = 2 * DigestBytes
           /\ \A i \in 1..Len(call.out) : call.out[i] \in UpperHexDigits
    /\ Hashing =>
           call.context =
               Update(NewContext,
                      SubSeq(call.bytes, 1, Len(call.bytes) - Len(call.rest)))

\* A stream of three bytes was hashed in a read of two bytes and a read of
\* one, which left a byte of the first read in the buffer.
HashDeterminismWitness ==
    /\ Hashed
    /\ call.bytes = <<1, 0, 1>>
    /\ call.reads = <<2, 1>>
    /\ call.buffer = <<1, 0>>
    /\ call.out = Sha256Hex(<<1, 0, 1>>)

----------------------------------------------------------------------------
(* The program: main of main.rs, from the configuration to the exit        *)

WebuiRoot == <<"webui">>

\* get_default_structure_webui of main.rs
main_webui_directory(field) ==
    CASE field = "checkpoints" -> "Stable-diffusion"
      [] field = "loras" -> "Lora"
      [] field = "controlnet" -> "ControlNet"
      [] field = "upscale_models" -> "ESRGAN"
      [] field = "vae" -> "VAE"

\* The WebUI structure of main.rs below the WebUI root.
SatelliteWebui ==
    [c \in {MainFields[i] : i \in 1..Len(MainFields)} |->
        Join(WebuiRoot, ParsePath(main_webui_directory(c)))]

\* One satellite section of config.toml: enabled, and whether it has a path.
SatelliteConfigs == [enabled : BOOLEAN, path : BOOLEAN]

\* config.toml as main reads it: text that is no Config at all, or the
\* comfyui and webui sections. A missing file reads as the default Config.
Configs ==
    [valid : {TRUE}, comfyui : SatelliteConfigs, webui : SatelliteConfigs]
    \cup {[valid |-> FALSE,
           comfyui |-> [enabled |-> FALSE, path |-> FALSE],
           webui |-> [enabled |-> FALSE, path |-> FALSE]]}

\* The categories whose ComfyUI paths vary when main starts, and what may
\* stand at the first WebUI path.
MainCategories == {"checkpoints", "vae"}

WebuiStates == {"absent", "link_nowhere"}

InitMain ==
    /\ \E choice \in [MainCategories -> CategoryStates], w \in WebuiStates :
          LET states == [c \in Categories |->
                            IF c \in MainCategories THEN choice[c]
                            ELSE DefaultState]
          IN  fs = TreeOf(states, 1)
                   @@ (Root :> DirNode) @@ (Elsewhere :> DirNode)
                   @@ (SatelliteRoot :> DirNode) @@ (WebuiRoot :> DirNode)
                   @@ (IF w = "link_nowhere"
                       THEN SatelliteWebui["checkpoints"] :> LinkNode(Nowhere)
                       ELSE NoEntries)
    /\ links = <<>>
    /\ cache = Absent
    /\ stores = <<>>
    /\ call = NoCall
    /\ phase = "idle"
    /\ scanned = <<>>
    /\ todo = <<>>
    /\ log = <<>>
    /\ start = IdleStart

\* main and where it stands: the Config read, and the exit status once it
\* has returned (Err(String) and a panic both exit with a non-zero status).
MainCall(config, exit) ==
    [op |-> "main", path |-> <<>>, hash |-> NoDigest, fault |-> "none",
     err |-> "none", out |-> NoDigest, pre |-> Absent, config |-> config,
     exit |-> exit]

\* main up to the ComfyUI section: the logger, config.toml read and parsed;
\* toml::from_str(..).unwrap() panics on text that is no Config.
MainStart(config) ==
    /\ phase = "idle"
    /\ IF config.valid
       THEN /\ phase' = "comfyui"
            /\ call' = MainCall(config, "running")
       ELSE /\ phase' = "exited"
            /\ call' = MainCall(config, "failure")
    /\ UNCHANGED <<cache, stores, fs, scanned, todo, log, start, links>>

\* if let Err(e) = models_structure.soft_link_to(&comfyui_config) { return
\* Err(..) }: what main does with the result r of soft_link_to.
main_linked(r, next, done) ==
    [called |-> TRUE, fs |-> r.fs, err |-> r.err, failed |-> r.failed,
     phase |-> IF r.err # "none" THEN "exited" ELSE next,
     exit |-> IF r.err # "none" THEN "failure" ELSE done]

\* One satellite section of main: skipped when not enabled; an Err return
\* when it has no path or when soft_link_to fails; else on to `next`.
main_section(section, to, f, next) ==
    LET done == IF next = "exited" THEN "success" ELSE "running" IN
    IF ~section.enabled
    THEN [called |-> FALSE, fs |-> f, err |-> "none", failed |-> 0,
          phase |-> next, exit |-> done]
    ELSE IF ~section.path
    THEN [called |-> FALSE, fs |-> f, err |-> "none", failed |-> 0,
          phase |-> "exited", exit |-> "failure"]
    ELSE main_linked(main_soft_link_to(Canonical, to, f), next, done)

\* The step of main that one section is.
MainSection(name, r) ==
    /\ fs' = r.fs
    /\ links' = IF r.called
                THEN Append(links, [impl |-> "main", to |-> name,
                                    err |-> r.err, failed |-> r.failed,
                                    pre |-> fs, post |-> r.fs])
                ELSE links
    /\ phase' = r.phase
    /\ call' = [call EXCEPT !.exit = r.exit]
    /\ UNCHANGED <<cache, stores, scanned, todo, log, start>>

\* if config.comfyui.enabled { ... }
MainComfyUI ==
    /\ phase = "comfyui"
    /\ MainSection("comfyui",
                   main_section(call.config.comfyui, Satellite, fs, "webui"))

\* if config.webui.enabled { ... } and Ok(())
MainWebUI ==
    /\ phase = "webui"
    /\ MainSection("webui",
                   main_section(call.config.webui, SatelliteWebui, fs,
                                "exited"))

NextMain ==
    \/ \E config \in Configs : MainStart(config)
    \/ MainComfyUI
    \/ MainWebUI

SpecMain == InitMain /\ [][NextMain]_vars

----------------------------------------------------------------------------
(* Claims on the exit status *)

\* The configuration is a setup error: no Config, or an enabled satellite
\* without a path.
SetupError(config) ==
    \/ ~config.valid
    \/ config.comfyui.enabled /\ ~config.comfyui.path
    \/ config.webui.enabled /\ ~config.webui.path

\* soft_link_to was called for the satellite of that name.
Attempted(name) == \E i \in 1..Len(links) : links[i].to = name

\* C20: link errors do not determine the exit status. The process exits
\* non-zero only on a setup error; when a link of one satellite layout
\* cannot be made or replaced, the run still does the remaining work, the
\* other enabled layout, and exits with success.
LinkErrorsAreNotExitCodes ==
    (phase = "exited" /\ ~SetupError(call.config)) =>
        /\ call.exit = "success"
        /\ call.config.comfyui.enabled => Attempted("comfyui")
        /\ call.config.webui.enabled => Attempted("webui")

\* C20, what holds instead: without a setup error the exit status is
\* success exactly when no soft_link_to failed, and a failure for ComfyUI
\* ends the run before WebUI is tried.
ExitStatusFollowsLinks ==
    (phase = "exited" /\ ~SetupError(call.config)) =>
        /\ (call.exit = "success") <=>
               \A i \in 1..Len(links) : links[i].err = "none"
        /\ (\E i \in 1..Len(links) :
               links[i].to = "comfyui" /\ links[i].err # "none") =>
               ~Attempted("webui")

----------------------------------------------------------------------------
(* Claims on what create_symlink removes *)

\* The entries strictly below the path p.
Below(f, p) == {q \in DOMAIN f : IsPrefix(p, q) /\ q # p}

\* After the call the target of category c is the new link, nothing of what
\* stood there is left, and the directory an old link recorded is untouched.
Replaced(pre, post, c) ==
    /\ LinkedTo(post, c)
    /\ Below(post, Satellite[c]) = {}
    /\ Elsewhere \in DOMAIN post
    /\ post[Elsewhere] = pre[Elsewhere]

\* C21: soft-link step 2. When the target path exists in any form other
\* than a symbolic link already recording the canonical path (a regular
\* file, a directory with contents, a symbolic link recording another path),
\* create_symlink removes it entirely, a directory with all below it, of a
\* link the link alone and never the directory it records, before it
\* ensures the parent directory and creates the new link.
ExistingTargetRemoved ==
    \A i \in 1..Len(links) :
        \A c \in Reached(links[i]) :
            (LExists(links[i].pre, Satellite[c]) /\ ~LinkedTo(links[i].pre, c))
                => Replaced(links[i].pre, links[i].post, c)

\* C21, the case that holds: the target exists as Path::exists sees it, a
\* symbolic link there recording a path that exists.
ExistingTargetRemovedWhenLive ==
    \A i \in 1..Len(links) :
        \A c \in Reached(links[i]) :
            (Exists(links[i].pre, Satellite[c]) /\ ~LinkedTo(links[i].pre, c))
                => Replaced(links[i].pre, links[i].post, c)

\* A directory with a file in it and a link to another directory stood at
\* two target paths, and one call replaced both.
ExistingTargetRemovedWhenLiveWitness ==
    \E i \in 1..Len(links) :
        \E c, d \in Reached(links[i]) :
            /\ Below(links[i].pre, Satellite[c]) # {}
            /\ StaleLink(links[i].pre, d)
            /\ Exists(links[i].pre, Satellite[d])
            /\ Replaced(links[i].pre, links[i].post, c)
            /\ Replaced(links[i].pre, links[i].post, d)

----------------------------------------------------------------------------
(* Claims on the destination of a relocation *)

\* The call was made on a model file of the root, and nothing stood where
\* the kind's directory goes.
MoveOfFileToFreeCategory ==
    /\ call.op = "move_orphan_model"
    /\ call.path \in DOMAIN call.before
    /\ call.before[call.path].kind = "file"
    /\ Root \o <<DirectoryOfKind(call.model_type)>> \notin DOMAIN call.before

\* The destination the claim names for the call.
Destination ==
    Root \o <<DirectoryOfKind(call.model_type), LineageLabel(Some(call.base_model)),
              FileName(call.path)>>

\* C22: relocation destination and ordering. move_orphan_model computes the
\* destination as root / kind directory / lower-cased lineage / file name
\* of the source; every missing directory on that path is created before
\* the rename is attempted (so the move of a file into a category that does
\* not exist yet succeeds, and a rename that fails leaves the directories
\* made); on success the file is at the destination and no longer at the
\* source.
RelocationDestination ==
    /\ (call.op = "move_orphan_model" /\ call.new_path # <<>>) =>
           call.new_path = Destination
    /\ (call.op = "move_orphan_model" /\ call.err = "none") =>
           /\ call.new_path = Destination
           /\ \A n \in (Len(Root) + 1)..(Len(Destination) - 1) :
                  /\ SubSeq(Destination, 1, n) \in DOMAIN fs
                  /\ fs[SubSeq(Destination, 1, n)].kind = "dir"
           /\ Destination \in DOMAIN fs
           /\ fs[Destination] = call.before[call.path]
           /\ call.path \notin DOMAIN fs
    /\ (MoveOfFileToFreeCategory /\ call.fault = "none") => call.err = "none"
    /\ (MoveOfFileToFreeCategory /\ call.fault = "rename") =>
           /\ call.err = "Io"
           /\ IsDir(fs, Parent(Destination))
           /\ call.path \in DOMAIN fs

\* A file was moved into loras/pony, neither directory being there before.
RelocationDestinationWitness ==
    /\ MoveOfFileToFreeCategory
    /\ call.err = "none"
    /\ call.path = Root \o <<"a.safetensors">>
    /\ call.new_path = Root \o <<"loras", "pony", "a.safetensors">>
    /\ Root \o <<"loras", "pony">> \notin DOMAIN call.before
    /\ fs[Root \o <<"loras", "pony">>].kind = "dir"
    /\ fs[call.new_path] = call.before[call.path]

----------------------------------------------------------------------------
(* Claims on the digest of a cache hit *)

\* The cache file holds an entry for the path.
Held(file, path) ==
    file.st = "map" /\ ToStringLossy(path) \in DOMAIN file.map

\* C23: stale digest on a cache hit. When the cache holds an entry for a
\* model path, get_model_info neither reads nor hashes the file and sends
\* the cached digest to the resolver, whatever bytes the file has now; the
\* cache is left as it is. The file is hashed only on a cache miss.
StaleDigestOnHit ==
    [][(phase = "running" /\ log' # log) =>
          LET e == log'[Len(log')] IN
          /\ e.path = Head(todo)
          /\ IF Held(cache, Head(todo))
             THEN /\ e.hit /\ ~e.hashed /\ ~e.stored
                  /\ e.requested
                  /\ e.digest = cache.map[ToStringLossy(Head(todo))]
                  /\ cache' = cache
             ELSE ~e.hit /\ e.hashed]_vars

\* The cache held for a file another digest than the one of its bytes; the
\* resolver was asked with the cached digest and the file was relocated.
StaleDigestOnHitWitness ==
    /\ Len(log) = 1
    /\ Held(start.cache, log[1].path)
    /\ start.cache.map[ToStringLossy(log[1].path)]
           # Sha256Hex(start.fs[log[1].path].data)
    /\ log[1].hit
    /\ log[1].requested
    /\ log[1].digest = start.cache.map[ToStringLossy(log[1].path)]
    /\ log[1].stage = "done"

----------------------------------------------------------------------------
(* Claims on a relocation onto a path that is taken *)

\* The call was made on a model file of the root while a file stood at the
\* path the model file goes to.
MoveOntoFile ==
    /\ call.op = "move_orphan_model"
    /\ call.path \in DOMAIN call.before
    /\ call.before[call.path].kind = "file"
    /\ call.new_path \in DOMAIN call.before
    /\ call.before[call.new_path].kind = "file"

\* C24: relocation performs no collision check. move_orphan_model attempts
\* the rename whether or not a file is at the destination; when one is, it
\* is replaced by the moved file and the call reports success.
RelocationOverwrites ==
    (MoveOntoFile /\ call.fault = "none") =>
        /\ call.err = "none"
        /\ call.new_path \in DOMAIN fs
        /\ fs[call.new_path] = call.before[call.path]
        /\ call.path \notin DOMAIN fs

\* a.safetensors was moved onto a file of other bytes at
\* loras/pony/a.safetensors.
RelocationOverwritesWitness ==
    /\ MoveOntoFile
    /\ call.fault = "none"
    /\ call.err = "none"
    /\ call.before[call.new_path] # call.before[call.path]
    /\ fs[call.new_path] = call.before[call.path]

----------------------------------------------------------------------------
(* Claims on what a store leaves alone *)

\* A store on a well-formed cache file returned Ok.
StoredOnMap == call.op = "store" /\ call.pre.st = "map" /\ call.err = "none"

\* C25: a store changes nothing but its own key. On a well-formed cache,
\* cache_model_hash(d, p, cache) leaves the value of every key other than p
\* as it was, removes no key and adds none but p, and when p is already
\* present leaves the whole mapping as it was although the file is written
\* again.
StoreFrame ==
    StoredOnMap =>
        LET key == ToStringLossy(call.path) IN
        /\ cache.st = "map"
        /\ DOMAIN call.pre.map \subseteq DOMAIN cache.map
        /\ DOMAIN cache.map \subseteq DOMAIN call.pre.map \cup {key}
        /\ \A k \in DOMAIN call.pre.map \ {key} : cache.map[k] = call.pre.map[k]
        /\ key \in DOMAIN call.pre.map => cache.map = call.pre.map

\* A store of another digest for a path the cache held, beside an entry for
\* another path: the mapping is as it was.
StoreFrameWitness ==
    /\ StoredOnMap
    /\ Cardinality(DOMAIN call.pre.map) = 2
    /\ ToStringLossy(call.path) \in DOMAIN call.pre.map
    /\ call.pre.map[ToStringLossy(call.path)] # call.hash
    /\ cache.map = call.pre.map

\* A store of a new path beside an entry the cache held.
StoreFrameOfNewKey ==
    /\ StoredOnMap
    /\ Cardinality(DOMAIN call.pre.map) = 1
    /\ ToStringLossy(call.path) \notin DOMAIN call.pre.map
    /\ Cardinality(DOMAIN cache.map) = 2

----------------------------------------------------------------------------
(* The label specification: one run of sort_models with a resolver whose   *)
(* base-lineage labels are more than one path component                    *)

\* Labels the resolver may answer with: one that climbs out with "..", an
\* absolute path, and one with a separator only.
PathLabels == {"../..", "/outside", "sd/xl"}

\* What the environment answers in this run: a LoRA with one of these
\* labels, or with the label "Pony".
LabelEnvironments ==
    {Env(FALSE, "none", Http(200, Body(ModelInfo("Lora", Some(l)))), "none") :
        l \in PathLabels}
    \cup {Env(FALSE, "none", PlainResponse, "none")}

LabelStep == SortStepIn(LabelEnvironments)

NextLabel == SortStart \/ LabelStep

SpecLabel == InitSort /\ [][NextLabel]_vars

----------------------------------------------------------------------------
(* Claims on where a relocation can lead *)

\* Where the file of the processing recorded as e was moved to: its
\* destination with "..", and the directories on the way, resolved.
Landed(e) == Entry(fs, e.new_path).path

\* C26: relocation stays inside the canonical tree. For every metadata
\* record, one whose base-lineage label holds a path separator, a ".."
\* component or an absolute path included, the destination of
\* move_orphan_model lies below root / kind directory: nothing is ever
\* moved or created outside the canonical root.
RelocationStaysInside ==
    /\ \A q \in DOMAIN fs : IsPrefix(Root, q)
    /\ \A i \in 1..Len(log) :
           log[i].stage = "done" =>
               IsPrefix(Root \o <<DirectoryOfKind(log[i].resp.body.info.model_type)>>,
                        Landed(log[i]))

\* C26, the case that holds: a label whose components are names (no "..",
\* not absolute) leads below the kind's directory.
RelocationStaysInsideForNames ==
    \A i \in 1..Len(log) :
        (/\ log[i].stage = "done"
         /\ log[i].resp.body.info.base_model.v \notin {"../..", "/outside"}) =>
            /\ IsPrefix(Root \o <<DirectoryOfKind(log[i].resp.body.info.model_type)>>,
                        Landed(log[i]))
            /\ Landed(log[i]) \in DOMAIN fs

----------------------------------------------------------------------------
(* The overlap specification: soft_link_to with target taxonomies that     *)
(* share paths with the canonical one                                      *)

\* The target taxonomies: the ComfyUI defaults below their own root, the
\* same defaults below the canonical root (comfyui.path is the models
\* path, every target path then equal to its canonical path), and one
\* whose checkpoints path is the canonical root itself.
TargetTaxonomies ==
    {Satellite, Canonical, [Satellite EXCEPT !["checkpoints"] = Root]}

\* The categories whose paths vary when the calls begin.
OverlapCategories == {"loras", "vae"}

\* A model file in the canonical checkpoints directory.
CanonicalModel == Append(Canonical["checkpoints"], "m.safetensors")

InitOverlap ==
    /\ \E choice \in [OverlapCategories -> CategoryStates] :
          LET states == [c \in Categories |->
                            IF c \in OverlapCategories THEN choice[c]
                            ELSE DefaultState]
          IN  fs = TreeOf(states, 1)
                   @@ (Root :> DirNode) @@ (Elsewhere :> DirNode)
                   @@ (SatelliteRoot :> DirNode)
                   @@ (CanonicalModel :> FileNode(<<1>>))
    /\ links = <<>>
    /\ cache = Absent
    /\ stores = <<>>
    /\ call = NoCall
    /\ phase = "idle"
    /\ scanned = <<>>
    /\ todo = <<>>
    /\ log = <<>>
    /\ start = IdleStart

\* models_structure.soft_link_to(&to), configuration.rs
SoftLinkOnto(to) ==
    /\ Len(links) < MaxLinkCalls
    /\ LET r == soft_link_to(Canonical, to, fs) IN
       /\ fs' = r.fs
       /\ links' = Append(links, [impl |-> "configuration", to |-> to,
                                  err |-> r.err, failed |-> r.failed,
                                  pre |-> fs, post |-> r.fs])
    /\ UNCHANGED <<cache, stores, call, phase, scanned, todo, log, start>>

NextOverlap == \E to \in TargetTaxonomies : SoftLinkOnto(to)

SpecOverlap == InitOverlap /\ [][NextOverlap]_vars

----------------------------------------------------------------------------
(* Claims on the canonical tree under reconciliation *)

\* The canonical category directories and all below them.
CanonicalTree(f) ==
    [q \in {p \in DOMAIN f : \E c \in Categories : IsPrefix(Canonical[c], p)}
        |-> f[q]]

\* C27: reconciliation never touches the canonical tree. For every
\* canonical and target taxonomy, a target category path equal to or an
\* ancestor of a canonical category path included, soft_link_to removes and
\* creates entries at target paths only and leaves every canonical category
\* directory and what it holds as it was.
CanonicalTreeUntouched ==
    \A i \in 1..Len(links) :
        CanonicalTree(links[i].post) = CanonicalTree(links[i].pre)

\* C27, the case that holds: no target path is a canonical category path
\* or above one.
CanonicalTreeUntouchedByDisjointTargets ==
    \A i \in 1..Len(links) :
        (\A c, d \in Categories : ~IsPrefix(links[i].to[c], Canonical[d])) =>
            CanonicalTree(links[i].post) = CanonicalTree(links[i].pre)

----------------------------------------------------------------------------
(* Claims on the order of the steps of get_model_info *)

=============================================================================
